---- MODULE Spec2Model ----
(***************************************************************************)
(* Route-choice generator (docs/modal-processor-complete.py, process_map). *)
(* The job is modelled stage by stage:                                     *)
(*   SpecGraph  : raster -> skeleton -> full graph -> simplify_graph ->    *)
(*                snapping, clustering and pair generation                 *)
(*   SpecPair   : eval_pair / find_alts over the pair list, then the       *)
(*                batched refinement and selection loop                    *)
(*   SpecSelect : the batched refinement and selection loop alone, over a  *)
(*                drawn list of graph candidates                           *)
(* Points are <<row, col>> tuples.  A graph is a record                    *)
(* [nodes |-> set of points, w |-> function from edges {u, v} to weight].  *)
(* A candidate dict is referred to by its index in                         *)
(* sorted_graph_candidates; the keys the loop adds to the dict later       *)
(* (main_pixel, alt_pixel, overlap, selection_pass) are functions of that  *)
(* index.                                                                  *)
(***************************************************************************)
EXTENDS Integers, Sequences, FiniteSets, TLC

VARIABLES
    pc,                       \* position of process_map
    result,                   \* "none", "success" or "failed": the job's return value
    binary_crop,              \* the navigable pixels of the cropped raster
    skeleton,                 \* skeletonize(binary_crop)
    fullG,                    \* the 8-connected graph over the skeleton pixels
    roi_csv_points,           \* the sampled points, in crop coordinates
    visited,                  \* simplify_graph: the directed edges already walked
    sg_order,                 \* simplify_graph: the junctions "for n in junctions" has reached
    snapped_pts, cluster_reps,
    Gs,                       \* the simplified graph, shared by all pair evaluations
    Gs0,                      \* Gs as simplify_graph built it
    MAX_CANDIDATE_PAIRS_TO_CALCULATE,   \* params.get("max_candidate_pairs")
    NUM_RANDOM_POINTS,        \* params.get("num_random_points")
    roi_path_full,            \* the ROI polygon, as the set of the drawn points inside it
    points, attempts,         \* generate_random_points locals
    generated_points,         \* what generate_random_points returned
    sp_path, sp_window,       \* smooth_path's arguments path and window_size
    smoothed_path,            \* what smooth_path returned
    webhook_log,              \* the posts the webhook has been sent, in order
    candidate_pairs,          \* the <<st, en>> pairs to evaluate
    cnt,                      \* pairs evaluated so far
    pair_scores,              \* the candidate dicts eval_pair returned
    eval_failed,              \* pairs whose eval_pair ended in its except clause
    mainp, alts, fa_i,        \* eval_pair / find_alts locals: main path, alternates, loop index
    Lm, ed,                   \* find_alts locals: main path length, the removed edge's weight
    refine_raised,            \* candidates whose refinement ended in its except clause
    NUM_OUTPUT_ROUTES,        \* params.get("num_output_routes")
    BATCH_SIZE,               \* params.get("batch_size")
    sorted_graph_candidates,  \* the candidate dicts, by hardness, best first
    refined_pool,             \* indices of the candidates that passed refinement
    final_list,               \* indices of the selected candidates
    current_idx,
    batch_raw,                \* indices of the candidates of the current batch
    batch_pos,                \* position of "for cand in batch_raw"
    temp_selected,
    pool_sorted,
    pass_idx,                 \* the pass the selection filter is about to run
    main_pixel, alt_pixel, overlap, selection_pass   \* keys added to the dicts

loopVars == <<NUM_OUTPUT_ROUTES, BATCH_SIZE, sorted_graph_candidates, refined_pool,
              final_list, current_idx, batch_raw, batch_pos, temp_selected,
              pool_sorted, pass_idx, main_pixel, alt_pixel, overlap, selection_pass>>

graphVars == <<binary_crop, skeleton, fullG, visited, sg_order, roi_csv_points,
               snapped_pts, cluster_reps>>

evalVars == <<Gs, Gs0, candidate_pairs, cnt, pair_scores, eval_failed, mainp, alts, fa_i, Lm, ed>>

paramVars == <<MAX_CANDIDATE_PAIRS_TO_CALCULATE, NUM_RANDOM_POINTS>>

sampleVars == <<roi_path_full, points, attempts, generated_points>>

smoothVars == <<sp_path, sp_window, smoothed_path>>

hookVars == <<webhook_log>>

vars == <<pc, result, paramVars, sampleVars, smoothVars, hookVars, graphVars, evalVars, refine_raised, loopVars>>

-----------------------------------------------------------------------------
(* Bounds of the model *)

MaxCands == 3      \* graph candidates handed to the batched loop
MaxTarget == 2     \* largest num_output_routes tried
MaxBatch == 2      \* largest batch_size tried
MaxRewind == 2     \* how far below 0 current_idx is followed
MaxPairs == 3      \* candidate pairs evaluated in SpecPair

-----------------------------------------------------------------------------
(* Configuration defaults *)

MAX_OVERLAP_PERCENT == 20    \* 0.20, in hundredths
SMOOTHING_WINDOW == 5
ALT_MAX_ALTERNATIVES == 3
ALT_EDGE_STEP == 5           \* range(1, len(mainp), 5)

PASSES == <<300, 250, 200, 150, 120, 100, 80, 60, 40, 20>>

-----------------------------------------------------------------------------
(* Arithmetic helpers *)

Abs(x) == IF x < 0 THEN -x ELSE x
Sgn(x) == IF x < 0 THEN -1 ELSE IF x > 0 THEN 1 ELSE 0
Min2(a, b) == IF a < b THEN a ELSE b
Max2(a, b) == IF a > b THEN a ELSE b
Range(s) == {s[i] : i \in 1..Len(s)}

\* squared Euclidean distance; math.hypot(..) < d is compared as Dist2 < d * d
Dist2(p, q) == (p[1] - q[1]) * (p[1] - q[1]) + (p[2] - q[2]) * (p[2] - q[2])

\* hardness scores and overlaps are exact fractions <<numerator, denominator>>
FracLess(a, b) == a[1] * b[2] < b[1] * a[2]

-----------------------------------------------------------------------------
(* Pixel refinement helpers *)

\* get_pixel_overlap: intersection over the smaller set, 1.0 for an empty path
get_pixel_overlap(path_a, path_b) ==
    LET set_a == Range(path_a)
        set_b == Range(path_b)
        intersection == Cardinality(set_a \cap set_b)
        min_len == Min2(Cardinality(set_a), Cardinality(set_b))
    IN  IF min_len = 0 THEN <<1, 1>> ELSE <<intersection, min_len>>

\* refinement with the overlap test left out
OverlapTooHigh_never(ov) == FALSE

\* ov > MAX_OVERLAP_PERCENT
OverlapTooHigh(ov) == ov[1] * 100 > MAX_OVERLAP_PERCENT * ov[2]

\* int(round(total / n)) for a float total / n: Python rounds halves to even
RoundDiv(total, n) ==
    LET q == total \div n
        r == total % n
    IN  IF 2 * r < n THEN q
        ELSE IF 2 * r > n THEN q + 1
        ELSE IF q % 2 = 0 THEN q ELSE q + 1

RECURSIVE SumCoord(_, _, _, _)
SumCoord(path, lo, hi, k) ==
    IF lo > hi THEN 0 ELSE path[lo][k] + SumCoord(path, lo + 1, hi, k)

\* the window averaged over, clipped at the ends of the path, for every point
smooth_path_clipped(path, window_size) ==
    LET h == window_size \div 2
        n == Len(path)
    IN  [i \in 1..n |->
            LET lo == Max2(1, i - h)
                hi == Min2(n, i + h)
            IN  <<RoundDiv(SumCoord(path, lo, hi, 1), hi - lo + 1),
                  RoundDiv(SumCoord(path, lo, hi, 2), hi - lo + 1)>>]

\* smooth_path: the three loops, one after the other: window_size // 2 points
\* copied, the centred moving average of the points between, window_size // 2
\* points copied
smooth_path(path, window_size) ==
    IF Len(path) < window_size THEN path
    ELSE LET h == window_size \div 2
             n == Len(path)
             copied_head == [i \in 1..h |-> path[i]]
             averaged == [j \in 1..(n - 2 * h) |->
                            <<RoundDiv(SumCoord(path, j, j + 2 * h, 1), 2 * h + 1),
                              RoundDiv(SumCoord(path, j, j + 2 * h, 2), 2 * h + 1)>>]
             copied_tail == [j \in 1..h |-> path[n - h + j]]
         IN  copied_head \o averaged \o copied_tail

-----------------------------------------------------------------------------
(* route_through_array (skimage): the results the library call can give for *)
(* a pair, as 8-connected pixel paths from st to en.  A path bulges away    *)
(* from the direct line by up to `off` pixels from pixel `from` on.         *)

PixelPath(st, en, off, from) ==
    LET dr == en[1] - st[1]
        dc == en[2] - st[2]
        n == Max2(Abs(dr), Abs(dc))
        bump(k) == IF k < from THEN 0 ELSE Min2(off, Min2(k - from, n - k))
    IN  [i \in 1..(n + 1) |->
            LET k == i - 1
                r == st[1] + Sgn(dr) * Min2(k, Abs(dr))
                c == st[2] + Sgn(dc) * Min2(k, Abs(dc))
            IN  IF Abs(dc) >= Abs(dr) THEN <<r + bump(k), c>> ELSE <<r, c + bump(k)>>]

\* the main route runs over the unmodified cost map
MainRoutes(st, en) == {PixelPath(st, en, 0, 0)}

\* the alternate runs over the corridor cost map: along the main line, off it
\* all the way, or off it from the middle on
AltRoutes(st, en) ==
    LET n == Max2(Abs(en[1] - st[1]), Abs(en[2] - st[2]))
    IN  {PixelPath(st, en, 0, 0), PixelPath(st, en, 2, 0), PixelPath(st, en, 2, n \div 2)}

-----------------------------------------------------------------------------
(* The webhook.  webhook_log is the history of the status it has been sent: *)
(* a "processing" post on top of a "processing" post leaves the history as  *)
(* it is, every other post is added to it.  A post that fails to arrive is  *)
(* swallowed by its sender and counts as sent.                              *)

update_status(log, status) ==
    IF status = "processing" /\ log # <<>> /\ log[Len(log)] = "processing"
    THEN log
    ELSE Append(log, status)

\* the end of the export with the /complete post outside its own try: a post
\* that raises lands in the handler of process_map
ExportPosts_complete_unguarded(log, outcome) ==
    IF outcome = "success"
    THEN Append(log, "complete")
    ELSE update_status(Append(log, "complete"), "failed")

\* the end of the export: the /complete post of a job that got through, the
\* "failed" post of the handler of process_map for one that raised
ExportPosts(log, outcome) ==
    IF outcome = "success"
    THEN Append(log, "complete")
    ELSE update_status(log, "failed")

-----------------------------------------------------------------------------
(* Selection filter *)

\* too_close_to with the endpoints paired the wrong way round only
too_close_to_crossed_only(st_new, en_new, st_sel, en_sel, separation_dist) ==
    /\ Dist2(st_new, en_sel) < separation_dist * separation_dist
    /\ Dist2(en_new, st_sel) < separation_dist * separation_dist

\* the test of one already selected pair against the new pair
too_close_to(st_new, en_new, st_sel, en_sel, separation_dist) ==
    LET d_st == Dist2(st_new, st_sel)
        d_en == Dist2(en_new, en_sel)
        d_x1 == Dist2(st_new, en_sel)
        d_x2 == Dist2(en_new, st_sel)
        t2 == separation_dist * separation_dist
    IN  \/ (d_st < t2 /\ d_en < t2)
        \/ (d_x1 < t2 /\ d_x2 < t2)

\* "for selected in temp_selected: ... too_close = True; break"
too_close(cands, c, selected, separation_dist) ==
    \E k \in 1..Len(selected) :
        too_close_to(cands[c].snapped_pair[1], cands[c].snapped_pair[2],
                     cands[selected[k]].snapped_pair[1], cands[selected[k]].snapped_pair[2],
                     separation_dist)

\* sorted(seq, key=hardness_score, reverse=True): stable, best first
RECURSIVE InsertDesc(_, _, _)
InsertDesc(cands, sorted, x) ==
    IF sorted = <<>> THEN <<x>>
    ELSE IF FracLess(cands[Head(sorted)].hardness_score, cands[x].hardness_score)
         THEN <<x>> \o sorted
         ELSE <<Head(sorted)>> \o InsertDesc(cands, Tail(sorted), x)

\* sorted(...) without reverse=True: worst first
RECURSIVE SortDesc_ascending(_, _)
SortDesc_ascending(cands, seq) ==
    IF seq = <<>> THEN <<>>
    ELSE <<seq[Len(seq)]>> \o SortDesc_ascending(cands, SubSeq(seq, 1, Len(seq) - 1))

RECURSIVE SortDesc(_, _)
SortDesc(cands, seq) ==
    IF seq = <<>> THEN <<>>
    ELSE InsertDesc(cands, SortDesc(cands, SubSeq(seq, 1, Len(seq) - 1)), seq[Len(seq)])

\* TargetReached off by one
TargetReached_off_by_one(selected, target) == Len(selected) > target

\* "if len(temp_selected) >= NUM_OUTPUT_ROUTES: break", at the head of a pass
\* and of every step of its scan
TargetReached(selected, target) == Len(selected) >= target

\* the pass counted as a plain enumerate(PASSES) counts it, from 0
RecordPass_zero_based(sp, c, pidx) == [sp EXCEPT ![c] = pidx - 1]

\* c["selection_pass"] = pass_idx, pass_idx from enumerate(PASSES, 1)
RecordPass(sp, c, pidx) == [sp EXCEPT ![c] = pidx]

\* one pass: "for c in pool_sorted", from position i on
RECURSIVE ScanPool(_, _, _, _, _, _, _, _)
ScanPool(cands, pool, ovl, target, pidx, i, sel, sp) ==
    IF i > Len(pool) \/ TargetReached(sel, target) THEN [sel |-> sel, sp |-> sp]
    ELSE LET c == pool[i] IN
         IF OverlapTooHigh(ovl[c]) \/ c \in Range(sel) \/ too_close(cands, c, sel, PASSES[pidx])
         THEN ScanPool(cands, pool, ovl, target, pidx, i + 1, sel, sp)
         ELSE ScanPool(cands, pool, ovl, target, pidx, i + 1,
                       Append(sel, c), RecordPass(sp, c, pidx))

-----------------------------------------------------------------------------
(* The batched refinement loop *)

\* a Python slice bound: a negative bound counts from the end, and both
\* kinds are clipped to 0..n
SliceBound(n, i) == IF i < 0 THEN Max2(i + n, 0) ELSE Min2(i, n)

\* seq[a:b] of a list of n items, as the list of its (1-based) positions
PySlice(n, a, b) ==
    [k \in 1..(SliceBound(n, b) - SliceBound(n, a)) |-> SliceBound(n, a) + k]

\* "while len(final_list) < NUM_OUTPUT_ROUTES and current_idx < len(...)":
\* the loop test, and the head of the body (the batch slice)
LoopTest ==
    /\ pc = "loop"
    /\ current_idx + MaxRewind >= 0
    /\ IF Len(final_list) < NUM_OUTPUT_ROUTES /\ current_idx < Len(sorted_graph_candidates)
       THEN /\ batch_raw' = PySlice(Len(sorted_graph_candidates), current_idx,
                                    current_idx + BATCH_SIZE)
            /\ current_idx' = current_idx + BATCH_SIZE
            /\ IF BATCH_SIZE = 0
               THEN \* ZeroDivisionError in "current_idx//BATCH_SIZE": outer handler
                    /\ pc' = "done"
                    /\ result' = "failed"
                    /\ webhook_log' = update_status(webhook_log, "failed")
                    /\ UNCHANGED batch_pos
               ELSE /\ batch_pos' = 1
                    /\ pc' = "refine"
                    /\ UNCHANGED <<result, webhook_log>>
       ELSE /\ pc' = "export"
            /\ UNCHANGED <<result, webhook_log, batch_raw, current_idx, batch_pos>>
    /\ UNCHANGED <<NUM_OUTPUT_ROUTES, BATCH_SIZE, sorted_graph_candidates,
                   refined_pool, final_list, temp_selected, pool_sorted, pass_idx,
                   main_pixel, alt_pixel, overlap, selection_pass>>
    /\ UNCHANGED <<graphVars, evalVars, refine_raised>>
    /\ UNCHANGED <<paramVars, sampleVars, smoothVars>>

\* the selection code placed inside the for loop's last iteration
BatchDone_before_last(pos, batch) == pos >= Len(batch)

\* "for cand in batch_raw" is exhausted: the statements after the loop run
BatchDone(pos, batch) == pos > Len(batch)

\* one step of "for cand in batch_raw": the try block ends with the candidate in
\* the pool, rejected for its pixel overlap, or with an exception that is swallowed
RefineCand ==
    /\ pc = "refine"
    /\ batch_pos <= Len(batch_raw)
    /\ batch_pos' = batch_pos + 1
    /\ LET c == batch_raw[batch_pos]
           cand == sorted_graph_candidates[c]
           st == cand.snapped_pair[1]
           en == cand.snapped_pair[2]
       IN  \/ /\ Len(cand.alt_routes_graph) < 1          \* continue
              /\ UNCHANGED <<refined_pool, main_pixel, alt_pixel, overlap, refine_raised>>
           \/ /\ Len(cand.alt_routes_graph) >= 1         \* except Exception: continue
              /\ refine_raised' = refine_raised \cup {c}
              /\ UNCHANGED <<refined_pool, main_pixel, alt_pixel, overlap>>
           \/ /\ Len(cand.alt_routes_graph) >= 1
              /\ UNCHANGED refine_raised
              /\ \E ind_m_raw \in MainRoutes(st, en), ind_a_raw \in AltRoutes(st, en) :
                    LET ind_m == smooth_path(ind_m_raw, SMOOTHING_WINDOW)
                        ind_a == smooth_path(ind_a_raw, SMOOTHING_WINDOW)
                        ov == get_pixel_overlap(ind_m, ind_a)
                    IN  IF OverlapTooHigh(ov)
                        THEN UNCHANGED <<refined_pool, main_pixel, alt_pixel, overlap>>
                        ELSE /\ main_pixel' = [main_pixel EXCEPT ![c] = ind_m]
                             /\ alt_pixel' = [alt_pixel EXCEPT ![c] = ind_a]
                             /\ overlap' = [overlap EXCEPT ![c] = ov]
                             /\ refined_pool' = Append(refined_pool, c)
    /\ UNCHANGED <<pc, result, NUM_OUTPUT_ROUTES, BATCH_SIZE, sorted_graph_candidates,
                   final_list, current_idx, batch_raw, temp_selected, pool_sorted,
                   pass_idx, selection_pass>>
    /\ UNCHANGED <<graphVars, evalVars>>
    /\ UNCHANGED <<paramVars, sampleVars, smoothVars, hookVars>>

\* the batch is done: "temp_selected = []; pool_sorted = sorted(refined_pool, ...)"
SelectStart ==
    /\ pc = "refine"
    /\ BatchDone(batch_pos, batch_raw)
    /\ temp_selected' = <<>>
    /\ pool_sorted' = SortDesc(sorted_graph_candidates, refined_pool)
    /\ pass_idx' = 1
    /\ pc' = "select"
    /\ UNCHANGED <<result, NUM_OUTPUT_ROUTES, BATCH_SIZE, sorted_graph_candidates,
                   refined_pool, final_list, current_idx, batch_raw, batch_pos,
                   main_pixel, alt_pixel, overlap, selection_pass>>
    /\ UNCHANGED <<graphVars, evalVars, refine_raised>>
    /\ UNCHANGED <<paramVars, sampleVars, smoothVars, hookVars>>

\* one pass of "for pass_idx, separation_dist in enumerate(PASSES, 1)"
SelectPass ==
    /\ pc = "select"
    /\ pass_idx <= Len(PASSES)
    /\ ~TargetReached(temp_selected, NUM_OUTPUT_ROUTES)
    /\ LET r == ScanPool(sorted_graph_candidates, pool_sorted, overlap, NUM_OUTPUT_ROUTES,
                         pass_idx, 1, temp_selected, selection_pass)
       IN  /\ temp_selected' = r.sel
           /\ selection_pass' = r.sp
    /\ pass_idx' = pass_idx + 1
    /\ UNCHANGED <<pc, result, NUM_OUTPUT_ROUTES, BATCH_SIZE, sorted_graph_candidates,
                   refined_pool, final_list, current_idx, batch_raw, batch_pos,
                   pool_sorted, main_pixel, alt_pixel, overlap>>
    /\ UNCHANGED <<graphVars, evalVars, refine_raised>>
    /\ UNCHANGED <<paramVars, sampleVars, smoothVars, hookVars>>

\* the passes are over: "final_list = temp_selected", and the break on the target
SelectEnd ==
    /\ pc = "select"
    /\ pass_idx > Len(PASSES) \/ TargetReached(temp_selected, NUM_OUTPUT_ROUTES)
    /\ final_list' = temp_selected
    /\ pc' = IF Len(temp_selected) >= NUM_OUTPUT_ROUTES THEN "export" ELSE "loop"
    /\ UNCHANGED <<result, NUM_OUTPUT_ROUTES, BATCH_SIZE, sorted_graph_candidates,
                   refined_pool, current_idx, batch_raw, batch_pos, temp_selected,
                   pool_sorted, pass_idx, main_pixel, alt_pixel, overlap, selection_pass>>
    /\ UNCHANGED <<graphVars, evalVars, refine_raised>>
    /\ UNCHANGED <<paramVars, sampleVars, smoothVars>>
    /\ webhook_log' = update_status(webhook_log, "processing")

\* export, upload and the completion post; an exception of the export lands in
\* the outer handler
Export ==
    /\ pc = "export"
    /\ pc' = "done"
    /\ result' \in {"success", "failed"}
    /\ webhook_log' = ExportPosts(update_status(webhook_log, "processing"), result')
    /\ UNCHANGED loopVars
    /\ UNCHANGED <<graphVars, evalVars, refine_raised>>
    /\ UNCHANGED <<paramVars, sampleVars, smoothVars>>

NextSelect == LoopTest \/ RefineCand \/ SelectStart \/ SelectPass \/ SelectEnd \/ Export

-----------------------------------------------------------------------------
(* networkx graph operations *)

\* (a graph without edges has the empty function <<>> as its w)
has_edge(G, u, v) == G.w # <<>> /\ {u, v} \in DOMAIN G.w

\* the edge kept, at twice its weight, where the code takes it out
remove_edge_penalised(G, u, v) ==
    [G EXCEPT !.w = [e \in DOMAIN G.w |-> IF e = {u, v} THEN 2 * G.w[e] ELSE G.w[e]]]

remove_edge(G, u, v) == [G EXCEPT !.w = [e \in (DOMAIN G.w) \ {{u, v}} |-> G.w[e]]]

\* add_edge(u, v, weight=wt): a new edge, or the weight of the one there already
add_edge(G, u, v, wt) ==
    [nodes |-> G.nodes \cup {u, v},
     w |-> [e \in (DOMAIN G.w) \cup {{u, v}} |-> IF e = {u, v} THEN wt ELSE G.w[e]]]

neighbors(G, u) == {v \in G.nodes : has_edge(G, u, v)}

RECURSIVE path_weight(_, _)
path_weight(G, path) ==
    IF Len(path) < 2 THEN 0
    ELSE G.w[{path[1], path[2]}] + path_weight(G, Tail(path))

\* the simple paths that continue `path` to en
RECURSIVE SimplePaths(_, _, _)
SimplePaths(G, path, en) ==
    IF path[Len(path)] = en THEN {path}
    ELSE UNION { SimplePaths(G, Append(path, v), en) :
                    v \in neighbors(G, path[Len(path)]) \ Range(path) }

\* nx.astar_path with the straight-line heuristic: a path of least weight, any
\* of them when several tie; the empty set stands for NodeNotFound / NetworkXNoPath
astar_path(G, st, en) ==
    IF st \notin G.nodes \/ en \notin G.nodes THEN {}
    ELSE LET all == SimplePaths(G, <<st>>, en)
         IN  {a \in all : \A b \in all : path_weight(G, a) <= path_weight(G, b)}

-----------------------------------------------------------------------------
(* Python floats of the skeleton graph.  A float (an IEEE double) is        *)
(* <<hi, lo>>: the value hi * 2^26 + lo in units of 2^-52, 0 <= lo < 2^26.  *)
(* The values met are 0 and the sums of 1 and sqrt(2) below 32.             *)

TwoP26 == 67108864
FZero == <<0, 0>>
FOne == <<TwoP26, 0>>
\* math.sqrt(2) = 0x1.6A09E667F3BCDp+0
FSqrt2 == <<94906265, 41892813>>

\* the binade of a sum: the number of low bits a double gives up there
FDropBits(hi) ==
    IF hi < 2 * TwoP26 THEN 0
    ELSE IF hi < 4 * TwoP26 THEN 1
    ELSE IF hi < 8 * TwoP26 THEN 2
    ELSE IF hi < 16 * TwoP26 THEN 3
    ELSE 4

\* x + y of two floats: the exact sum, rounded to 53 bits, ties to even
FAdd(x, y) ==
    LET lo0 == (x[2] + y[2]) % TwoP26
        hi0 == x[1] + y[1] + ((x[2] + y[2]) \div TwoP26)
        m == 2 ^ FDropBits(hi0)
        q == lo0 \div m
        r == lo0 % m
        up == IF 2 * r > m \/ (2 * r = m /\ q % 2 = 1) THEN 1 ELSE 0
        lo1 == (q + up) * m
    IN  IF lo1 >= TwoP26 THEN <<hi0 + 1, lo1 - TwoP26>> ELSE <<hi0, lo1>>

FLess(x, y) == x[1] < y[1] \/ (x[1] = y[1] /\ x[2] < y[2])

\* |x - y| <= tol units of 2^-52, for tol below 2^26
FWithin(x, y, tol) ==
    /\ Abs(x[1] - y[1]) <= 1
    /\ Abs((x[1] - y[1]) * TwoP26 + (x[2] - y[2])) <= tol

-----------------------------------------------------------------------------
(* Skeleton graph, simplify_graph, snapping, clustering, pair generation *)

CANDIDATE_MIN_DIST == 300
CANDIDATE_MAX_DIST == 1500
DEFAULT_MAX_CANDIDATE_PAIRS == 15000
DBSCAN_EPS == 5

\* skeletonize(binary_crop): thinning to lines one pixel wide.  The rasters drawn
\* are such lines already and thinning takes nothing from them; an empty raster
\* has an empty skeleton.
skeletonize(img) == img

\* "(nr, nc) in skeleton_coords" for one of the eight offsets
Adjacent8(p, q) == p # q /\ Abs(p[1] - q[1]) <= 1 /\ Abs(p[2] - q[2]) <= 1

\* "wt = 1 if abs(dr)+abs(dc)==1 else math.sqrt(2)"
StepWeight(p, q) == IF Abs(p[1] - q[1]) + Abs(p[2] - q[2]) = 1 THEN FOne ELSE FSqrt2

\* the loop over skeleton_coords that fills fullG
BuildFullGraph(coords) ==
    LET edges == {e \in {{p, q} : p \in coords, q \in coords} :
                     \E p \in e, q \in e : Adjacent8(p, q)}
    IN  [nodes |-> coords,
         w |-> [e \in edges |-> LET p == CHOOSE x \in e : TRUE
                                    q == CHOOSE y \in e : y # p
                                IN  StepWeight(p, q)]]

\* G.degree(n): a self-loop counts twice
degree(G, n) == Cardinality(neighbors(G, n)) + (IF has_edge(G, n, n) THEN 1 ELSE 0)

junctions(G) == {n \in G.nodes : degree(G, n) # 2}

\* the walk given up at once: the chain stays [n, neigh]
WalkChain_no_walk(G, chain) == chain

\* "while current not in junctions": the chain is walked to the next junction
RECURSIVE WalkChain(_, _)
WalkChain(G, chain) ==
    LET current == chain[Len(chain)]
        prev == chain[Len(chain) - 1]
        nxts == neighbors(G, current) \ {prev}
    IN  IF current \in junctions(G) \/ nxts = {} THEN chain
        ELSE WalkChain(G, Append(chain, CHOOSE nxt \in nxts : TRUE))

\* sum(G[chain[i]][chain[i+1]]["weight"] for i in range(k)): added up from the
\* start of the chain, each sum rounded
RECURSIVE chain_dist(_, _, _)
chain_dist(G, chain, k) ==
    IF k = 0 THEN FZero
    ELSE FAdd(chain_dist(G, chain, k - 1), G.w[{chain[k], chain[k + 1]}])

\* "if dist < Gs[u][v]["weight"]" of a second chain between two junctions
ReplacesWeight_if_longer(dist, old) == FLess(old, dist)
ReplacesWeight(dist, old) == FLess(dist, old)

\* the neighbours of n that "for neigh in G.neighbors(n)" does not skip
Unwalked(n) ==
    {neigh \in neighbors(fullG, n) : <<n, neigh>> \notin visited /\ <<neigh, n>> \notin visited}

\* the junction "for n in junctions" is at has no neighbour left
JunctionDone == IF sg_order = <<>> THEN TRUE ELSE Unwalked(sg_order[Len(sg_order)]) = {}

\* lines 343-365: the skeleton, the full graph, and the head of simplify_graph
BuildGraph ==
    /\ pc = "skeleton"
    /\ skeleton' = skeletonize(binary_crop)
    /\ fullG' = BuildFullGraph(skeleton')
    /\ Gs' = [nodes |-> junctions(fullG'), w |-> <<>>]
    /\ visited' = {}
    /\ sg_order' = <<>>
    /\ pc' = "simplify"
    /\ UNCHANGED <<result, binary_crop, roi_csv_points, snapped_pts, cluster_reps>>
    /\ UNCHANGED <<Gs0, candidate_pairs, cnt, pair_scores, eval_failed, mainp, alts, fa_i, Lm, ed>>
    /\ UNCHANGED <<refine_raised, loopVars>>
    /\ UNCHANGED <<paramVars, sampleVars, smoothVars>>
    /\ webhook_log' = update_status(webhook_log, "processing")

\* "for n in junctions" moves on to a junction, in the set's order
SimplifyNextJunction ==
    /\ pc = "simplify"
    /\ JunctionDone
    /\ \E n \in junctions(fullG) \ Range(sg_order) : sg_order' = Append(sg_order, n)
    /\ UNCHANGED <<pc, result, binary_crop, skeleton, fullG, visited, roi_csv_points,
                   snapped_pts, cluster_reps>>
    /\ UNCHANGED <<evalVars, refine_raised, loopVars>>
    /\ UNCHANGED <<paramVars, sampleVars, smoothVars, hookVars>>

\* the body of "for neigh in G.neighbors(n)" for one neighbour not yet walked
SimplifyChain ==
    /\ pc = "simplify"
    /\ ~JunctionDone
    /\ \E neigh \in Unwalked(sg_order[Len(sg_order)]) :
          LET n == sg_order[Len(sg_order)]
              chain == WalkChain(fullG, <<n, neigh>>)
              dist == chain_dist(fullG, chain, Len(chain) - 1)
              u == chain[1]
              v == chain[Len(chain)]
          IN  /\ Gs' = IF has_edge(Gs, u, v)
                       THEN IF ReplacesWeight(dist, Gs.w[{u, v}])
                            THEN add_edge(Gs, u, v, dist)
                            ELSE Gs
                       ELSE add_edge(Gs, u, v, dist)
              /\ visited' = visited \cup {<<chain[k], chain[k + 1]>> : k \in 1..(Len(chain) - 1)}
    /\ UNCHANGED <<pc, result, binary_crop, skeleton, fullG, sg_order, roi_csv_points,
                   snapped_pts, cluster_reps>>
    /\ UNCHANGED <<Gs0, candidate_pairs, cnt, pair_scores, eval_failed, mainp, alts, fa_i, Lm, ed>>
    /\ UNCHANGED <<refine_raised, loopVars>>
    /\ UNCHANGED <<paramVars, sampleVars, smoothVars, hookVars>>

\* "if len(gs_nodes) == 0": after the warning, "Gs.add_node((0,0))"
EmptyGraphFallback_none(G) == G
EmptyGraphFallback(G) == [nodes |-> G.nodes \cup {<<0, 0>>}, w |-> G.w]

\* "return Gs", and lines 401-406: a graph without nodes gets the node (0, 0)
\* after the warning is printed
SimplifyReturn ==
    /\ pc = "simplify"
    /\ JunctionDone
    /\ junctions(fullG) \subseteq Range(sg_order)
    /\ Gs' = IF Gs.nodes = {} THEN EmptyGraphFallback(Gs) ELSE Gs
    /\ Gs0' = Gs'
    /\ pc' = "snap"
    /\ UNCHANGED <<result, graphVars>>
    /\ UNCHANGED <<candidate_pairs, cnt, pair_scores, eval_failed, mainp, alts, fa_i, Lm, ed>>
    /\ UNCHANGED <<refine_raised, loopVars>>
    /\ UNCHANGED <<paramVars, sampleVars, smoothVars, hookVars>>

\* snap_point with the far end of argsort(dists) taken
snap_point_farthest(pt, G) == {n \in G.nodes : \A m \in G.nodes : Dist2(n, pt) >= Dist2(m, pt)}

\* snap_point: the node at the head of argsort(dists); any of the nearest nodes
\* when several are equally near
snap_point(pt, G) == {n \in G.nodes : \A m \in G.nodes : Dist2(n, pt) <= Dist2(m, pt)}

\* DBSCAN(eps=5, min_samples=1): every point is a core point, a cluster is a
\* set of points chained by steps of at most eps
RECURSIVE SameCluster(_, _)
SameCluster(pts, S) ==
    LET S2 == S \cup {j \in 1..Len(pts) :
                        \E i \in S : Dist2(pts[i], pts[j]) <= DBSCAN_EPS * DBSCAN_EPS}
    IN  IF S2 = S THEN S ELSE SameCluster(pts, S2)

\* "cluster_reps = [cluster[0] for cluster in clusters.values()]": the first
\* point of each cluster, the clusters in the order they are first met
RECURSIVE ClusterReps(_, _)
ClusterReps(pts, i) ==
    IF i > Len(pts) THEN <<>>
    ELSE IF \E j \in 1..(i - 1) : j \in SameCluster(pts, {i})
         THEN ClusterReps(pts, i + 1)
         ELSE <<pts[i]>> \o ClusterReps(pts, i + 1)

\* the pair loop with "> CANDIDATE_MIN_DIST" for ">="
KeptIndexPairs_min_exclusive(reps) ==
    {ij \in (1..Len(reps)) \X (1..Len(reps)) :
        /\ ij[1] < ij[2]
        /\ Dist2(reps[ij[1]], reps[ij[2]]) <= CANDIDATE_MAX_DIST * CANDIDATE_MAX_DIST
        /\ Dist2(reps[ij[1]], reps[ij[2]]) > CANDIDATE_MIN_DIST * CANDIDATE_MIN_DIST}

\* the index pairs i < j the pair loop keeps: within query_ball_point's radius,
\* and at least CANDIDATE_MIN_DIST apart
KeptIndexPairs(reps) ==
    {ij \in (1..Len(reps)) \X (1..Len(reps)) :
        /\ ij[1] < ij[2]
        /\ Dist2(reps[ij[1]], reps[ij[2]]) <= CANDIDATE_MAX_DIST * CANDIDATE_MAX_DIST
        /\ Dist2(reps[ij[1]], reps[ij[2]]) >= CANDIDATE_MIN_DIST * CANDIDATE_MIN_DIST}

\* the lists the pair loop can build: i ascending, the j of one i in the order
\* query_ball_point returns them
PairOrders(reps) ==
    LET kept == KeptIndexPairs(reps)
        n == Cardinality(kept)
    IN  { [k \in 1..n |-> <<reps[o[k][1]], reps[o[k][2]]>>] :
            o \in {o \in [1..n -> kept] :
                     /\ \A a, b \in 1..n : a < b => o[a] # o[b]
                     /\ \A a, b \in 1..n : a < b => o[a][1] <= o[b][1]} }

\* random.sample(candidate_pairs, k)
random_sample(pairs, k) ==
    { [a \in 1..k |-> pairs[o[a]]] :
        o \in {o \in [1..k -> 1..Len(pairs)] : \A a, b \in 1..k : a < b => o[a] # o[b]} }

\* lines 408-425: every sampled point is snapped, the snapped points clustered
SnapAndCluster ==
    /\ pc = "snap"
    /\ snapped_pts' \in {sp \in [1..Len(roi_csv_points) -> Gs.nodes] :
                            \A k \in 1..Len(roi_csv_points) :
                                sp[k] \in snap_point(roi_csv_points[k], Gs)}
    /\ cluster_reps' = IF snapped_pts' # <<>> THEN ClusterReps(snapped_pts', 1) ELSE <<>>
    /\ pc' = "pairs"
    /\ UNCHANGED <<result, binary_crop, skeleton, fullG, visited, sg_order, roi_csv_points>>
    /\ UNCHANGED <<evalVars, refine_raised, loopVars>>
    /\ UNCHANGED <<paramVars, sampleVars, smoothVars, hookVars>>

\* lines 435-448: KDTree over the cluster representatives (a ValueError when
\* there are none, which the handler of process_map turns into a failed job),
\* the pair loop, the cut to MAX_CANDIDATE_PAIRS_TO_CALCULATE
GeneratePairs ==
    /\ pc = "pairs"
    /\ IF cluster_reps = <<>>
       THEN /\ result' = "failed"
            /\ pc' = "done"
            /\ webhook_log' = update_status(update_status(webhook_log, "processing"), "failed")
            /\ UNCHANGED candidate_pairs
       ELSE /\ \E pairs \in PairOrders(cluster_reps) :
                  IF Len(pairs) > MAX_CANDIDATE_PAIRS_TO_CALCULATE
                  THEN candidate_pairs' \in random_sample(pairs, MAX_CANDIDATE_PAIRS_TO_CALCULATE)
                  ELSE candidate_pairs' = pairs
            /\ pc' = "eval"
            /\ webhook_log' = update_status(webhook_log, "processing")
            /\ UNCHANGED result
    /\ UNCHANGED <<Gs, Gs0, cnt, pair_scores, eval_failed, mainp, alts, fa_i, Lm, ed>>
    /\ UNCHANGED <<graphVars, refine_raised, loopVars>>
    /\ UNCHANGED <<paramVars, sampleVars, smoothVars>>

-----------------------------------------------------------------------------
(* Fractions <<numerator, denominator>>, denominator > 0 *)

RECURSIVE Gcd(_, _)
Gcd(a, b) == IF b = 0 THEN a ELSE Gcd(b, a % b)

FracNorm(f) ==
    LET g == Gcd(Abs(f[1]), f[2])
    IN  IF g = 0 THEN f ELSE <<f[1] \div g, f[2] \div g>>

FracAdd(a, b) == FracNorm(<<a[1] * b[2] + b[1] * a[2], a[2] * b[2]>>)
FracMul(a, b) == FracNorm(<<a[1] * b[1], a[2] * b[2]>>)

\* math.hypot of a whole-number offset; the pairs evaluated lie on one row or
\* column of the raster, where the square root is a whole number
euclid(u, v) ==
    LET d2 == Dist2(u, v)
    IN  CHOOSE k \in 0..d2 : k * k <= d2 /\ d2 < (k + 1) * (k + 1)

-----------------------------------------------------------------------------
(* eval_pair and find_alts *)

\* route_sim: Jaccard similarity of the node sets, 0 when both are empty
route_sim(r1, r2) ==
    LET s1 == Range(r1)
        s2 == Range(r2)
    IN  IF Cardinality(s1 \cup s2) = 0 THEN <<0, 1>>
        ELSE <<Cardinality(s1 \cap s2), Cardinality(s1 \cup s2)>>

\* the length test alone dropped from find_alts
KeptByFindAlts_no_length_test(La, Lmain, sim) == 10 * sim[1] < 9 * sim[2]

\* find_alts keeps a: "La <= 1.3 * Lm" and "s < 0.90"
KeptByFindAlts(La, Lmain, sim) ==
    /\ 10 * La <= 13 * Lmain
    /\ 10 * sim[1] < 9 * sim[2]

\* eval_pair's test on an alternate: "if sim > MAX_OVERLAP_PERCENT: continue"
SimTooHigh(sim) == sim[1] * 100 > MAX_OVERLAP_PERCENT * sim[2]

\* valid_alts with no similarity test
valid_alts_unfiltered(found, main) == found

\* valid_alts: the alternates eval_pair keeps
RECURSIVE valid_alts(_, _)
valid_alts(found, main) ==
    IF found = <<>> THEN <<>>
    ELSE IF SimTooHigh(route_sim(Head(found), main))
         THEN valid_alts(Tail(found), main)
         ELSE <<Head(found)>> \o valid_alts(Tail(found), main)

\* q = max(0, 1 - ((La - Lm) / Lm)) * (1 - sim) * 20, for one alternate
AltQuality(G, a, main) ==
    LET La == path_weight(G, a)
        Lmain == path_weight(G, main)
        sim == route_sim(a, main)
    IN  FracMul(<<Max2(0, 2 * Lmain - La), Lmain>>, FracMul(<<sim[2] - sim[1], sim[2]>>, <<20, 1>>))

RECURSIVE AltSum(_, _, _)
AltSum(G, kept, main) ==
    IF kept = <<>> THEN <<0, 1>>
    ELSE FracAdd(AltQuality(G, Head(kept), main), AltSum(G, Tail(kept), main))

\* eval_pair returns a dict for any non-empty alternate list
HasNoAlts_never(kept) == FALSE

\* "if not valid_alts: return None"
HasNoAlts(kept) == kept = <<>>

\* where process_map goes on after eval_pair's "except: return None"
AfterEvalFailure_abort == "export"
AfterEvalFailure == "eval"

\* the third alternate's break leaves without restoring the edge
RestoreOnBreak_forgotten(G, u, v, wt) == G

\* "Gs.add_edge(u, v, **ed); break"
RestoreOnBreak(G, u, v, wt) == add_edge(G, u, v, wt)

\* eval_pair starts on the next pair: the main path, or the except clause when
\* astar_path raises
EvalPairStart ==
    /\ pc = "eval"
    /\ cnt < Len(candidate_pairs)
    /\ LET st == candidate_pairs[cnt + 1][1]
           en == candidate_pairs[cnt + 1][2]
       IN  IF astar_path(Gs, st, en) = {}
           THEN /\ eval_failed' = eval_failed \cup {candidate_pairs[cnt + 1]}
                /\ cnt' = cnt + 1
                /\ pc' = AfterEvalFailure
                /\ UNCHANGED <<mainp, alts, fa_i, Lm>>
           ELSE /\ mainp' \in astar_path(Gs, st, en)
                /\ alts' = <<>>
                /\ Lm' = path_weight(Gs, mainp')
                /\ fa_i' = 1
                /\ pc' = "find_alts"
                /\ UNCHANGED <<eval_failed, cnt>>
    /\ UNCHANGED <<result, Gs, Gs0, candidate_pairs, pair_scores, ed>>
    /\ UNCHANGED <<graphVars, refine_raised, loopVars>>
    /\ UNCHANGED <<paramVars, sampleVars, smoothVars, hookVars>>

\* find_alts, head of "for i in range(1, len(mainp), 5)": the edge before
\* mainp[i] is taken out of the graph (mainp is 1-based here)
FindAltsRemove ==
    /\ pc = "find_alts"
    /\ fa_i < Len(mainp)
    /\ LET u == mainp[fa_i]
           v == mainp[fa_i + 1]
       IN  IF ~has_edge(Gs, u, v)
           THEN /\ fa_i' = fa_i + ALT_EDGE_STEP
                /\ UNCHANGED <<Gs, pc, ed>>
           ELSE /\ ed' = Gs.w[{u, v}]
                /\ Gs' = remove_edge(Gs, u, v)
                /\ pc' = "alt_search"
                /\ UNCHANGED fa_i
    /\ UNCHANGED <<result, Gs0, candidate_pairs, cnt, pair_scores, eval_failed, mainp, alts, Lm>>
    /\ UNCHANGED <<graphVars, refine_raised, loopVars>>
    /\ UNCHANGED <<paramVars, sampleVars, smoothVars, hookVars>>

\* the handler leaving the loop: "except: break"
AfterNoPath_break == "eval_finish"

\* "except: pass": the loop goes on with the next edge
AfterNoPath == "find_alts"

\* find_alts, rest of the loop body: the search without the edge, the tests on
\* the path found, and the edge put back (before the break as well)
FindAltsSearch ==
    /\ pc = "alt_search"
    /\ LET u == mainp[fa_i]
           v == mainp[fa_i + 1]
           st == mainp[1]
           en == mainp[Len(mainp)]
       IN  IF astar_path(Gs, st, en) = {}
           THEN /\ Gs' = add_edge(Gs, u, v, ed)        \* except: pass
                /\ fa_i' = fa_i + ALT_EDGE_STEP
                /\ pc' = AfterNoPath
                /\ UNCHANGED alts
           ELSE \E a \in astar_path(Gs, st, en) :
                    IF KeptByFindAlts(path_weight(Gs, a), Lm, route_sim(a, mainp))
                    THEN /\ alts' = Append(alts, a)
                         /\ IF Len(alts') >= ALT_MAX_ALTERNATIVES
                            THEN /\ Gs' = RestoreOnBreak(Gs, u, v, ed)
                                 /\ pc' = "eval_finish"
                                 /\ UNCHANGED fa_i
                            ELSE /\ Gs' = add_edge(Gs, u, v, ed)
                                 /\ fa_i' = fa_i + ALT_EDGE_STEP
                                 /\ pc' = "find_alts"
                    ELSE /\ Gs' = add_edge(Gs, u, v, ed)
                         /\ fa_i' = fa_i + ALT_EDGE_STEP
                         /\ pc' = "find_alts"
                         /\ UNCHANGED alts
    /\ UNCHANGED <<result, Gs0, candidate_pairs, cnt, pair_scores, eval_failed, mainp, Lm, ed>>
    /\ UNCHANGED <<graphVars, refine_raised, loopVars>>
    /\ UNCHANGED <<paramVars, sampleVars, smoothVars, hookVars>>

\* find_alts, the range is used up: "return alts"
FindAltsReturn ==
    /\ pc = "find_alts"
    /\ fa_i >= Len(mainp)
    /\ pc' = "eval_finish"
    /\ UNCHANGED <<result, evalVars, graphVars, refine_raised, loopVars>>
    /\ UNCHANGED <<paramVars, sampleVars, smoothVars, hookVars>>

\* every edge of the path is in the graph (path_weight raises otherwise)
PathInGraph(G, path) == \A k \in 1..(Len(path) - 1) : has_edge(G, path[k], path[k + 1])

\* eval_pair after find_alts: "Lm = nx.path_weight(Gs, mainp)" still inside the
\* try, then the alternates are filtered and scored, and the dict is returned
\* and appended to pair_scores, or None is returned
EvalPairFinish ==
    /\ pc = "eval_finish"
    /\ IF ~PathInGraph(Gs, mainp)
       THEN /\ eval_failed' = eval_failed \cup {candidate_pairs[cnt + 1]}
            /\ pc' = AfterEvalFailure
            /\ UNCHANGED pair_scores
       ELSE /\ LET st == mainp[1]
                   en == mainp[Len(mainp)]
                   Ls == euclid(st, en)
                   kept == valid_alts(alts, mainp)
               IN  IF Ls = 0 \/ HasNoAlts(kept)
                   THEN UNCHANGED pair_scores
                   ELSE pair_scores' = Append(pair_scores,
                            [snapped_pair |-> <<st, en>>,
                             main_route_graph |-> mainp,
                             alt_routes_graph |-> kept,
                             hardness_score |-> FracAdd(<<path_weight(Gs, mainp) - Ls, Ls>>,
                                                        AltSum(Gs, kept, mainp)),
                             route_distance |-> path_weight(Gs, mainp)])
            /\ pc' = "eval"
            /\ UNCHANGED eval_failed
    /\ cnt' = cnt + 1
    /\ UNCHANGED <<result, Gs, Gs0, candidate_pairs, mainp, alts, fa_i, Lm, ed>>
    /\ UNCHANGED <<graphVars, refine_raised, loopVars>>
    /\ UNCHANGED <<paramVars, sampleVars, smoothVars, hookVars>>

\* all pairs are scored: "sorted_graph_candidates = sorted(pair_scores, ...)"
\* and the loop's variables are set up
SortCandidates ==
    /\ pc = "eval"
    /\ cnt >= Len(candidate_pairs)
    /\ LET order == SortDesc(pair_scores, [k \in 1..Len(pair_scores) |-> k])
           n == Len(pair_scores)
       IN  /\ sorted_graph_candidates' = [k \in 1..n |-> pair_scores[order[k]]]
           /\ main_pixel' = [c \in 1..n |-> <<>>]
           /\ alt_pixel' = [c \in 1..n |-> <<>>]
           /\ overlap' = [c \in 1..n |-> <<0, 1>>]
           /\ selection_pass' = [c \in 1..n |-> 0]
    /\ refined_pool' = <<>>
    /\ final_list' = <<>>
    /\ current_idx' = 0
    /\ pc' = "loop"
    /\ UNCHANGED <<result, evalVars, graphVars, refine_raised, NUM_OUTPUT_ROUTES, BATCH_SIZE,
                   batch_raw, batch_pos, temp_selected, pool_sorted, pass_idx>>
    /\ UNCHANGED <<paramVars, sampleVars, smoothVars>>
    /\ webhook_log' = update_status(webhook_log, "processing")

NextPair ==
    \/ EvalPairStart \/ FindAltsRemove \/ FindAltsSearch \/ FindAltsReturn
    \/ EvalPairFinish \/ SortCandidates \/ NextSelect

-----------------------------------------------------------------------------
(* Graph candidates handed to the loop in SpecSelect: pairs that lie at     *)
(* different distances from one another, each with the main route and one   *)
(* alternate eval_pair gave it.                                             *)

Cand(st, en, hs) ==
    [snapped_pair |-> <<st, en>>,
     main_route_graph |-> <<st, en>>,
     alt_routes_graph |-> << <<st, <<st[1] + 4, (st[2] + en[2]) \div 2>>, en>> >>,
     hardness_score |-> <<hs, 1>>,
     route_distance |-> Max2(Abs(en[1] - st[1]), Abs(en[2] - st[2]))]

DrawnCands ==
    { Cand(<<0, 0>>, <<0, 11>>, 4),        \* A
      Cand(<<0, 0>>, <<0, 31>>, 3),        \* L: shares A's start, its end is 20 away
      Cand(<<300, 0>>, <<300, 11>>, 2),    \* 300 from A
      Cand(<<5, 31>>, <<5, 0>>, 1),        \* L reversed, 5 away
      Cand(<<10, 0>>, <<10, 31>>, 1) }     \* L moved by 10

SortedDraws ==
    UNION { { s \in [1..n -> DrawnCands] :
                /\ \A i, j \in 1..n : i < j => s[i] # s[j]
                /\ \A i \in 1..(n - 1) :
                      ~FracLess(s[i].hardness_score, s[i + 1].hardness_score) }
            : n \in 0..MaxCands }

\* the sampling stage is over: its locals are left as an empty run leaves them
InitNoSampleStage ==
    /\ NUM_RANDOM_POINTS = 0
    /\ roi_path_full = {}
    /\ points = <<>>
    /\ attempts = 0
    /\ generated_points = <<>>

\* no call of smooth_path on its own is under way
InitNoSmoothStage ==
    /\ sp_path = <<>>
    /\ sp_window = SMOOTHING_WINDOW
    /\ smoothed_path = <<>>

\* the job is under way: the webhook has had "processing" posts and no other
InitJobRunning == webhook_log = <<"processing">>

InitLoop(cands) ==
    /\ refine_raised = {}
    /\ sorted_graph_candidates = cands
    /\ refined_pool = <<>>
    /\ final_list = <<>>
    /\ current_idx = 0
    /\ batch_raw = <<>>
    /\ batch_pos = 1
    /\ temp_selected = <<>>
    /\ pool_sorted = <<>>
    /\ pass_idx = 1
    /\ main_pixel = [c \in 1..Len(cands) |-> <<>>]
    /\ alt_pixel = [c \in 1..Len(cands) |-> <<>>]
    /\ overlap = [c \in 1..Len(cands) |-> <<0, 1>>]
    /\ selection_pass = [c \in 1..Len(cands) |-> 0]

InitNoGraphStage ==
    /\ binary_crop = {}
    /\ skeleton = {}
    /\ fullG = [nodes |-> {}, w |-> <<>>]
    /\ visited = {}
    /\ sg_order = <<>>
    /\ roi_csv_points = <<>>
    /\ snapped_pts = <<>>
    /\ cluster_reps = <<>>

InitNoEvalStage ==
    /\ Gs = [nodes |-> {}, w |-> <<>>]
    /\ Gs0 = [nodes |-> {}, w |-> <<>>]
    /\ candidate_pairs = <<>>
    /\ cnt = 0
    /\ pair_scores = <<>>
    /\ eval_failed = {}
    /\ mainp = <<>>
    /\ alts = <<>>
    /\ fa_i = 1
    /\ Lm = 0
    /\ ed = 0

InitSelect ==
    /\ MAX_CANDIDATE_PAIRS_TO_CALCULATE = DEFAULT_MAX_CANDIDATE_PAIRS
    /\ InitNoSampleStage
    /\ InitNoSmoothStage
    /\ InitJobRunning
    /\ pc = "loop"
    /\ result = "none"
    /\ InitNoGraphStage
    /\ InitNoEvalStage
    /\ NUM_OUTPUT_ROUTES \in 0..MaxTarget
    /\ BATCH_SIZE \in 0..MaxBatch
    /\ \E cands \in SortedDraws : InitLoop(cands)

-----------------------------------------------------------------------------
(* Simplified graphs handed to the pair evaluation in SpecPair.  Weights are *)
(* whole numbers, at least the straight-line distance of the end points.     *)

Edge(u, v, wt) == [ends |-> {u, v}, wt |-> wt]

GraphOf(edges) ==
    [nodes |-> UNION {e.ends : e \in edges},
     w |-> [x \in {e.ends : e \in edges} |-> (CHOOSE e \in edges : e.ends = x).wt]]

\* a line of nodes on row 0, from column `from`, `n` edges of length `step`
LineEdges(from, n, step) ==
    {Edge(<<0, from + (k - 1) * step>>, <<0, from + k * step>>, step) : k \in 1..n}

\* a seven-node main line, a bypass of three nodes around it, and an island
LadderGraph ==
    GraphOf(LineEdges(0, 6, 2)
            \cup {Edge(<<0, 0>>, <<1, 1>>, 2), Edge(<<1, 1>>, <<1, 6>>, 5),
                  Edge(<<1, 6>>, <<1, 11>>, 5), Edge(<<1, 11>>, <<0, 12>>, 2)}
            \cup {Edge(<<0, 20>>, <<0, 24>>, 4)})

\* the same with a rung from the bypass back to the main line
RungGraph == add_edge(LadderGraph, <<1, 1>>, <<0, 4>>, 4)

\* a twelve-node main line and a bypass of two nodes
LongGraph ==
    GraphOf(LineEdges(0, 11, 1)
            \cup {Edge(<<0, 0>>, <<1, 1>>, 2), Edge(<<1, 1>>, <<1, 10>>, 9),
                  Edge(<<1, 10>>, <<0, 11>>, 2)})

\* two seven-node main lines, 100 apart, each with its bypass
TwinGraph ==
    GraphOf(LineEdges(0, 6, 2) \cup LineEdges(100, 6, 2)
            \cup {Edge(<<0, 0>>, <<1, 1>>, 2), Edge(<<1, 1>>, <<1, 6>>, 5),
                  Edge(<<1, 6>>, <<1, 11>>, 5), Edge(<<1, 11>>, <<0, 12>>, 2)}
            \cup {Edge(<<0, 100>>, <<1, 101>>, 2), Edge(<<1, 101>>, <<1, 106>>, 5),
                  Edge(<<1, 106>>, <<1, 111>>, 5), Edge(<<1, 111>>, <<0, 112>>, 2)})

\* the twelve-node line and its bypass, with a dead-end edge at the far end
TailGraph == add_edge(LongGraph, <<0, 11>>, <<0, 12>>, 1)

DrawnGraphs == {LadderGraph, RungGraph, LongGraph, TwinGraph, TailGraph}

\* the pairs drawn: two nodes of one row of the graph
DrawnPairs(G) ==
    IF G = LongGraph
    THEN { <<<<0, 0>>, <<0, 11>>>>, <<<<0, 0>>, <<0, 5>>>>, <<<<1, 1>>, <<1, 10>>>> }
    ELSE IF G = TwinGraph
    THEN { <<<<0, 0>>, <<0, 12>>>>, <<<<0, 100>>, <<0, 112>>>>, <<<<0, 12>>, <<0, 100>>>> }
    ELSE IF G = TailGraph
    THEN { <<<<0, 12>>, <<0, 0>>>>, <<<<0, 12>>, <<0, 5>>>> }
    ELSE { <<<<0, 0>>, <<0, 12>>>>, <<<<1, 1>>, <<1, 11>>>>,
           <<<<0, 20>>, <<0, 24>>>>, <<<<0, 0>>, <<0, 20>>>> }

PairLists(G) ==
    UNION { { s \in [1..n -> DrawnPairs(G)] : \A i, j \in 1..n : i < j => s[i] # s[j] }
            : n \in 0..MaxPairs }

InitPair ==
    /\ MAX_CANDIDATE_PAIRS_TO_CALCULATE = DEFAULT_MAX_CANDIDATE_PAIRS
    /\ InitNoSampleStage
    /\ InitNoSmoothStage
    /\ InitJobRunning
    /\ pc = "eval"
    /\ result = "none"
    /\ InitNoGraphStage
    /\ NUM_OUTPUT_ROUTES \in 1..MaxTarget
    /\ BATCH_SIZE \in 1..MaxBatch
    /\ Gs \in DrawnGraphs
    /\ Gs0 = Gs
    /\ candidate_pairs \in PairLists(Gs)
    /\ cnt = 0
    /\ pair_scores = <<>>
    /\ eval_failed = {}
    /\ mainp = <<>>
    /\ alts = <<>>
    /\ fa_i = 1
    /\ Lm = 0
    /\ ed = 0
    /\ InitLoop(<<>>)

SpecPair == InitPair /\ [][NextPair]_vars

-----------------------------------------------------------------------------
(* The rasters and sampled points of SpecGraph *)

MaxPoints == 2     \* sampled points per job in SpecGraph

\* a line with one straight and two diagonal steps, and a pixel on its own
BendRaster == {<<0, 0>>, <<0, 1>>, <<1, 2>>, <<2, 3>>, <<5, 0>>}

\* two junctions joined by an upper chain of four diagonal steps and a lower
\* chain of two diagonal and two straight steps, a tail at either end
EyeRaster == {<<2, 0>>, <<2, 1>>, <<1, 2>>, <<0, 3>>, <<1, 4>>,
              <<3, 2>>, <<3, 3>>, <<3, 4>>, <<2, 5>>, <<2, 6>>}

\* a tail into a junction that carries a closed loop
LoopRaster == {<<2, 0>>, <<2, 1>>, <<1, 2>>, <<2, 3>>, <<3, 2>>}

\* a closed loop alone: every pixel has two neighbours
RingRaster == {<<2, 1>>, <<1, 2>>, <<2, 3>>, <<3, 2>>}

\* three arms of different length out of one junction
ForkRaster == {<<0, 0>>, <<1, 1>>, <<0, 2>>, <<2, 1>>, <<3, 1>>, <<4, 2>>}

DrawnRasters == {{}, {<<3, 3>>}, BendRaster, EyeRaster, LoopRaster, RingRaster, ForkRaster}

DrawnPoints == {<<0, 0>>, <<2, 4>>, <<9, 9>>}

PointLists == UNION { [1..n -> DrawnPoints] : n \in 0..MaxPoints }

InitGraph ==
    /\ MAX_CANDIDATE_PAIRS_TO_CALCULATE = DEFAULT_MAX_CANDIDATE_PAIRS
    /\ InitNoSampleStage
    /\ InitNoSmoothStage
    /\ InitJobRunning
    /\ pc = "skeleton"
    /\ result = "none"
    /\ binary_crop \in DrawnRasters
    /\ roi_csv_points \in PointLists
    /\ skeleton = {}
    /\ fullG = [nodes |-> {}, w |-> <<>>]
    /\ visited = {}
    /\ sg_order = <<>>
    /\ snapped_pts = <<>>
    /\ cluster_reps = <<>>
    /\ NUM_OUTPUT_ROUTES = MaxTarget
    /\ BATCH_SIZE = MaxBatch
    /\ InitNoEvalStage
    /\ InitLoop(<<>>)

\* the rasters drawn are smaller than CANDIDATE_MIN_DIST: no pair is generated,
\* and of the later stages only the steps taken without a pair are left
NextGraph ==
    \/ BuildGraph \/ SimplifyNextJunction \/ SimplifyChain \/ SimplifyReturn
    \/ SnapAndCluster \/ GeneratePairs
    \/ SortCandidates \/ LoopTest \/ Export

SpecGraph == InitGraph /\ [][NextGraph]_vars

-----------------------------------------------------------------------------
(* The cluster representatives and pair ceilings of SpecPairGen: points at  *)
(* 299, 300, 1500 and 1501 from one another, more than the clustering       *)
(* radius apart.                                                            *)

MaxReps == 3       \* cluster representatives per job in SpecPairGen

DrawnReps == {<<0, 0>>, <<0, 300>>, <<299, 0>>, <<900, 1200>>, <<0, 1501>>}

RepLists ==
    UNION { { s \in [1..n -> DrawnReps] : \A i, j \in 1..n : i < j => s[i] # s[j] }
            : n \in 0..MaxReps }

DrawnCeilings == {1, 2, DEFAULT_MAX_CANDIDATE_PAIRS}

InitPairGen ==
    /\ pc = "pairs"
    /\ result = "none"
    /\ MAX_CANDIDATE_PAIRS_TO_CALCULATE \in DrawnCeilings
    /\ InitNoSampleStage
    /\ InitNoSmoothStage
    /\ InitJobRunning
    /\ binary_crop = {}
    /\ skeleton = {}
    /\ fullG = [nodes |-> {}, w |-> <<>>]
    /\ visited = {}
    /\ sg_order = <<>>
    /\ roi_csv_points = <<>>
    /\ cluster_reps \in RepLists
    /\ snapped_pts = cluster_reps
    /\ NUM_OUTPUT_ROUTES = MaxTarget
    /\ BATCH_SIZE = MaxBatch
    /\ InitNoEvalStage
    /\ InitLoop(<<>>)

\* pair generation alone, up to the hand-over of candidate_pairs
SpecPairGen == InitPairGen /\ [][GeneratePairs]_vars

(***************************************************************************)
(* Point sampling: generate_random_points draws batches of uniform         *)
(* candidates in the ROI bounds, keeps the ones the polygon contains, and  *)
(* stops at `count` points or when the attempt counter reaches count*100.  *)
(***************************************************************************)
MaxCount == 2      \* largest num_random_points drawn in SpecSample

ATTEMPTS_PER_POINT == 100
BATCH_OVERSAMPLE == 2

roi_left == 1
roi_top == 2

\* the positions np.random.uniform can return inside the ROI bounds
DrawnCandidates == {<<3, 5>>, <<8, 4>>}

\* the polygons of the jobs: none, one or both of the positions lie inside
DrawnPolygons == {{}, {<<3, 5>>}, {<<3, 5>>, <<8, 4>>}}

contains_point(poly_path, pt) == pt \in poly_path

\* candidates[mask] with the mask ignored
valid_candidates_unmasked(candidates, poly_path) == candidates

\* candidates[mask], mask = poly_path.contains_points(candidates)
valid_candidates(candidates, poly_path) ==
    SelectSeq(candidates, LAMBDA pt : contains_point(poly_path, pt))

\* the for loop over valid_candidates: append, break once count is reached
AppendUntil(pts, valid, count) ==
    IF Len(pts) >= count /\ valid # <<>>
    THEN pts \o SubSeq(valid, 1, 1)
    ELSE pts \o SubSeq(valid, 1, Min2(Len(valid), Max2(count - Len(pts), 0)))

max_attempts == NUM_RANDOM_POINTS * ATTEMPTS_PER_POINT

SampleLoopTest == Len(points) < NUM_RANDOM_POINTS /\ attempts < max_attempts

\* one iteration of the while loop
SampleBatch ==
    /\ pc = "sample"
    /\ SampleLoopTest
    /\ LET batch_size == (NUM_RANDOM_POINTS - Len(points)) * BATCH_OVERSAMPLE
       IN  \E candidates \in [1..batch_size -> DrawnCandidates] :
             /\ points' = AppendUntil(points,
                                      valid_candidates(candidates, roi_path_full),
                                      NUM_RANDOM_POINTS)
             /\ attempts' = attempts + batch_size
    /\ UNCHANGED <<pc, result, paramVars, roi_path_full, generated_points,
                   smoothVars, hookVars, graphVars, evalVars, refine_raised, loopVars>>

\* return points[:count], and the caller's change to crop coordinates
SampleReturn ==
    /\ pc = "sample"
    /\ ~SampleLoopTest
    /\ generated_points' = SubSeq(points, 1, Min2(Len(points), NUM_RANDOM_POINTS))
    /\ roi_csv_points' = [k \in 1..Len(generated_points') |->
                            <<generated_points'[k][2] - roi_top,
                              generated_points'[k][1] - roi_left>>]
    /\ pc' = "skeleton"
    /\ UNCHANGED <<result, paramVars, roi_path_full, points, attempts,
                   binary_crop, skeleton, fullG, visited, sg_order, snapped_pts,
                   cluster_reps, smoothVars, hookVars, evalVars, refine_raised, loopVars>>

NextSample == SampleBatch \/ SampleReturn

InitSample ==
    /\ pc = "sample"
    /\ result = "none"
    /\ MAX_CANDIDATE_PAIRS_TO_CALCULATE = DEFAULT_MAX_CANDIDATE_PAIRS
    /\ NUM_RANDOM_POINTS \in 0..MaxCount
    /\ roi_path_full \in DrawnPolygons
    /\ points = <<>>
    /\ attempts = 0
    /\ generated_points = <<>>
    /\ InitNoSmoothStage
    /\ InitJobRunning
    /\ InitNoGraphStage
    /\ NUM_OUTPUT_ROUTES = MaxTarget
    /\ BATCH_SIZE = MaxBatch
    /\ InitNoEvalStage
    /\ InitLoop(<<>>)

SpecSample == InitSample /\ [][NextSample]_vars

\* the while loop runs on: an iteration that can be taken is taken
FairSpecSample == SpecSample /\ WF_vars(NextSample)

(***************************************************************************)
(* Path smoothing on its own: smooth_path applied to a pixel path and a    *)
(* window size.                                                            *)
(***************************************************************************)
MaxPathLen == 6    \* longest path handed to smooth_path in SpecSmooth
MaxWindow == 5     \* largest smoothing_window drawn in SpecSmooth

\* the pixels the drawn paths run over
DrawnPixels == {<<0, 0>>, <<0, 3>>, <<4, 1>>}

DrawnPaths == UNION { [1..n -> DrawnPixels] : n \in 0..MaxPathLen }

InitSmooth ==
    /\ pc = "smooth"
    /\ result = "none"
    /\ MAX_CANDIDATE_PAIRS_TO_CALCULATE = DEFAULT_MAX_CANDIDATE_PAIRS
    /\ InitNoSampleStage
    /\ sp_path \in DrawnPaths
    /\ sp_window \in 0..MaxWindow
    /\ smoothed_path = <<>>
    /\ InitJobRunning
    /\ InitNoGraphStage
    /\ NUM_OUTPUT_ROUTES = MaxTarget
    /\ BATCH_SIZE = MaxBatch
    /\ InitNoEvalStage
    /\ InitLoop(<<>>)

\* ind = smooth_path(ind_raw)
SmoothCall ==
    /\ pc = "smooth"
    /\ smoothed_path' = smooth_path(sp_path, sp_window)
    /\ pc' = "smoothed"
    /\ UNCHANGED <<result, paramVars, sampleVars, sp_path, sp_window,
                   hookVars, graphVars, evalVars, refine_raised, loopVars>>

SpecSmooth == InitSmooth /\ [][SmoothCall]_vars

(***************************************************************************)
(* The batched loop on candidates that crowd one another: X and Y lie      *)
(* within 300 of A and 25 apart, N lies 300 from A and within 20 of both.  *)
(***************************************************************************)
CrowdedCands ==
    { Cand(<<0, 0>>, <<0, 11>>, 5),          \* A
      Cand(<<290, 0>>, <<290, 11>>, 4),      \* X
      Cand(<<290, 25>>, <<290, 36>>, 3),     \* Y
      Cand(<<300, 12>>, <<300, 23>>, 2) }    \* N

CrowdedDraws ==
    UNION { { s \in [1..n -> CrowdedCands] :
                \A i \in 1..(n - 1) :
                    FracLess(s[i + 1].hardness_score, s[i].hardness_score) }
            : n \in 0..(MaxCands + 1) }

InitRerun ==
    /\ MAX_CANDIDATE_PAIRS_TO_CALCULATE = DEFAULT_MAX_CANDIDATE_PAIRS
    /\ InitNoSampleStage
    /\ InitNoSmoothStage
    /\ InitJobRunning
    /\ pc = "loop"
    /\ result = "none"
    /\ InitNoGraphStage
    /\ InitNoEvalStage
    /\ NUM_OUTPUT_ROUTES \in {MaxTarget + 1, MaxTarget + 2}
    /\ BATCH_SIZE \in 1..MaxBatch
    /\ \E cands \in CrowdedDraws : InitLoop(cands)

SpecRerun == InitRerun /\ [][NextSelect]_vars

\* the batched loop under every kind of batch_size: negative, zero, positive
InitBatch ==
    /\ MAX_CANDIDATE_PAIRS_TO_CALCULATE = DEFAULT_MAX_CANDIDATE_PAIRS
    /\ InitNoSampleStage
    /\ InitNoSmoothStage
    /\ InitJobRunning
    /\ pc = "loop"
    /\ result = "none"
    /\ InitNoGraphStage
    /\ InitNoEvalStage
    /\ NUM_OUTPUT_ROUTES \in 0..MaxTarget
    /\ BATCH_SIZE \in (-1)..MaxBatch
    /\ \E cands \in SortedDraws : InitLoop(cands)

SpecBatch == InitBatch /\ [][NextSelect]_vars

(***************************************************************************)
(* The whole job, from the first status post on: process_map with a drawn  *)
(* raster, polygon and point count.                                        *)
(***************************************************************************)
\* line 228: the first post, ahead of the try block
StartJob ==
    /\ pc = "start"
    /\ webhook_log' = update_status(webhook_log, "processing")
    /\ pc' = "load"
    /\ UNCHANGED <<result, paramVars, sampleVars, smoothVars, graphVars, evalVars,
                   refine_raised, loopVars>>

\* lines 230-334: the downloads, the ROI, the images and the crop.  A download
\* or a later step raises into the handler of process_map; images that do not
\* open are reported and the function returns; else sampling is announced.
LoadImages ==
    /\ pc = "load"
    /\ \E outcome \in {"raised", "unreadable", "loaded"} :
          LET announced == update_status(webhook_log, "processing")
          IN  IF outcome = "loaded"
              THEN /\ webhook_log' = update_status(announced, "processing")
                   /\ pc' = "sample"
                   /\ UNCHANGED result
              ELSE /\ webhook_log' = update_status(announced, "failed")
                   /\ result' = "failed"
                   /\ pc' = "done"
    /\ UNCHANGED <<paramVars, sampleVars, smoothVars, graphVars, evalVars,
                   refine_raised, loopVars>>

InitJob ==
    /\ pc = "start"
    /\ result = "none"
    /\ webhook_log = <<>>
    /\ MAX_CANDIDATE_PAIRS_TO_CALCULATE = DEFAULT_MAX_CANDIDATE_PAIRS
    /\ NUM_RANDOM_POINTS \in 0..MaxCount
    /\ roi_path_full \in DrawnPolygons
    /\ points = <<>>
    /\ attempts = 0
    /\ generated_points = <<>>
    /\ sp_path = <<>>
    /\ sp_window = SMOOTHING_WINDOW
    /\ smoothed_path = <<>>
    /\ binary_crop \in {{}, BendRaster, ForkRaster}
    /\ roi_csv_points = <<>>
    /\ skeleton = {}
    /\ fullG = [nodes |-> {}, w |-> <<>>]
    /\ visited = {}
    /\ sg_order = <<>>
    /\ snapped_pts = <<>>
    /\ cluster_reps = <<>>
    /\ NUM_OUTPUT_ROUTES = MaxTarget
    /\ BATCH_SIZE = MaxBatch
    /\ InitNoEvalStage
    /\ InitLoop(<<>>)

NextJob == StartJob \/ LoadImages \/ NextSample \/ NextGraph

SpecJob == InitJob /\ [][NextJob]_vars

SpecSelect == InitSelect /\ [][NextSelect]_vars

\* process_map runs its statements one after the other: a step that can be
\* taken is taken
FairSpecSelect == SpecSelect /\ WF_vars(NextSelect)

-----------------------------------------------------------------------------
(* Claims about the selection filter *)

PairOf(c) == sorted_graph_candidates[c].snapped_pair

\* every later member of the list keeps the distance of the pass that took it
\* from every earlier member: not both corresponding endpoints closer than it
KeepsPassDistance(list) ==
    \A i, j \in 1..Len(list) :
        i < j =>
            LET p == selection_pass[list[j]]
            IN  /\ p \in 1..Len(PASSES)
                /\ ~(/\ Dist2(PairOf(list[j])[1], PairOf(list[i])[1]) < PASSES[p] * PASSES[p]
                     /\ Dist2(PairOf(list[j])[2], PairOf(list[i])[2]) < PASSES[p] * PASSES[p])

\* C1: after every run of the multi-pass selection (and while a run builds its
\* list), a candidate accepted in pass p does not have both endpoints closer
\* than PASSES[p] to the corresponding endpoints of a candidate accepted before it.
C1_SelectedKeepPassDistance ==
    /\ KeepsPassDistance(temp_selected)
    /\ pc # "select" => KeepsPassDistance(final_list)

\* a finished run selected a second candidate in a later pass than the first:
\* the two are closer than the first threshold
C1_Witness ==
    /\ pc = "export"
    /\ Len(final_list) >= 2
    /\ selection_pass[final_list[2]] > 1
    /\ Dist2(PairOf(final_list[2])[1], PairOf(final_list[1])[1]) < PASSES[1] * PASSES[1]

Separated(c, d) ==
    ~too_close_to(PairOf(c)[1], PairOf(c)[2], PairOf(d)[1], PairOf(d)[2], PASSES[1])

\* the refined pool holds more than NUM_OUTPUT_ROUTES candidates that are
\* pairwise separated by the largest threshold
AmplePool ==
    \E S \in SUBSET Range(refined_pool) :
        /\ Cardinality(S) > NUM_OUTPUT_ROUTES
        /\ \A c, d \in S : c # d => Separated(c, d)

\* C2: once the refined pool holds more than N pairwise separated candidates,
\* the loop ends, and it ends with exactly N selected candidates.
C2_AmplePoolEndsWithTarget ==
    AmplePool ~> (pc = "done" /\ Len(final_list) = NUM_OUTPUT_ROUTES)

\* the loop ended on an ample pool with candidates left unrefined
C2_Witness ==
    /\ pc = "done"
    /\ AmplePool
    /\ NUM_OUTPUT_ROUTES > 0
    /\ Len(final_list) = NUM_OUTPUT_ROUTES
    /\ current_idx < Len(sorted_graph_candidates)

IsPrefix(s, t) == Len(s) <= Len(t) /\ \A i \in 1..Len(s) : s[i] = t[i]

\* C10: within a run, every pass keeps what the passes before it accepted (the
\* candidates and the pass recorded for them), the run's result is the list so
\* built, and a further pass is entered only while the count is below the target.
C10_PassesNeverRevoke ==
    [][/\ (pc = "select" /\ pc' = "select") =>
            /\ IsPrefix(temp_selected, temp_selected')
            /\ \A c \in Range(temp_selected) : selection_pass'[c] = selection_pass[c]
            /\ pass_idx' > pass_idx => Len(temp_selected) < NUM_OUTPUT_ROUTES
       /\ (pc = "select" /\ pc' # "select") => final_list' = temp_selected]_vars

\* a later pass has just added a second candidate to a list that still holds
\* the candidate of pass 1
C10_Witness ==
    /\ pc = "select"
    /\ pass_idx > 2
    /\ Len(temp_selected) = 2
    /\ selection_pass[temp_selected[1]] = 1
    /\ selection_pass[temp_selected[2]] = pass_idx - 1

-----------------------------------------------------------------------------
(* Claims about pair evaluation *)

\* the candidate dicts kept so far: pair_scores, and its sorted copy
KeptCands == Range(pair_scores) \cup Range(sorted_graph_candidates)

\* the pixel-level alternates a candidate dict holds: the one key alt_pixel
PixelAltCount(c) == IF alt_pixel[c] = <<>> THEN 0 ELSE 1

\* C3 as claimed: there is one alternate count K that every kept candidate has
\* at graph level, and every candidate of the refined pool at pixel level too.
C3_ExactlyKAlternates ==
    \E K \in 0..ALT_MAX_ALTERNATIVES :
        /\ \A cand \in KeptCands : Len(cand.alt_routes_graph) = K
        /\ \A c \in Range(refined_pool) : PixelAltCount(c) = K

\* C3, amended: every kept candidate has between one and ALT_MAX_ALTERNATIVES
\* graph alternates; a candidate has its one pixel alternate, a pixel path
\* between its two points, exactly when it is in the refined pool.
C3_AtLeastOneAlternate ==
    /\ \A cand \in KeptCands :
          /\ Len(cand.alt_routes_graph) >= 1
          /\ Len(cand.alt_routes_graph) <= ALT_MAX_ALTERNATIVES
    /\ \A c \in 1..Len(sorted_graph_candidates) :
          /\ c \in Range(refined_pool) <=> PixelAltCount(c) = 1
          /\ c \in Range(refined_pool) =>
                /\ alt_pixel[c][1] = PairOf(c)[1]
                /\ alt_pixel[c][Len(alt_pixel[c])] = PairOf(c)[2]

\* a candidate with two graph alternates is in the refined pool, with its one
\* pixel alternate
C3_Witness ==
    \E c \in Range(refined_pool) :
        /\ Len(sorted_graph_candidates[c].alt_routes_graph) = 2
        /\ PixelAltCount(c) = 1

\* C4 as claimed: in every kept candidate, any two of the graph paths (main and
\* alternates, alternate against alternate too) are at most MAX_OVERLAP_PERCENT
\* similar.
C4_AllPathsPairwiseDistinct ==
    \A cand \in KeptCands :
        LET paths == <<cand.main_route_graph>> \o cand.alt_routes_graph
        IN  \A i, j \in 1..Len(paths) :
                i < j => ~SimTooHigh(route_sim(paths[i], paths[j]))

\* C4, amended: in every kept candidate, each alternate is at most
\* MAX_OVERLAP_PERCENT similar to the main path.
C4_AlternatesDistinctFromMain ==
    \A cand \in KeptCands :
        \A k \in 1..Len(cand.alt_routes_graph) :
            ~SimTooHigh(route_sim(cand.alt_routes_graph[k], cand.main_route_graph))

\* eval_pair has just kept a candidate after dropping one of the alternates
\* find_alts gave it
C4_Witness ==
    /\ pc = "eval"
    /\ pair_scores # <<>>
    /\ pair_scores[Len(pair_scores)].main_route_graph = mainp
    /\ Len(pair_scores[Len(pair_scores)].alt_routes_graph) < Len(alts)

\* C5: in every kept candidate, each alternate's length over the weights of the
\* graph as built is at most 1.3 times the main path's.
C5_AlternateLengthBounded ==
    \A cand \in KeptCands :
        \A k \in 1..Len(cand.alt_routes_graph) :
            10 * path_weight(Gs0, cand.alt_routes_graph[k])
                <= 13 * path_weight(Gs0, cand.main_route_graph)

\* a kept candidate has an alternate longer than its main path
C5_Witness ==
    \E cand \in KeptCands :
        \E k \in 1..Len(cand.alt_routes_graph) :
            path_weight(Gs0, cand.alt_routes_graph[k]) > path_weight(Gs0, cand.main_route_graph)

EvalPcs == {"eval", "find_alts", "alt_search", "eval_finish"}

\* C6 as claimed: while a pair is evaluated the graph is the graph as built.
C6_GraphNeverMutated == pc \in EvalPcs => Gs = Gs0

\* C6, amended: the alternate search takes one edge of the main path out of the
\* shared graph for the time of one search; the nodes, the other edges and all
\* weights stay as built, and outside a search the graph is the graph as built.
C6_OnlySearchedEdgeMissing ==
    /\ pc # "alt_search" => Gs = Gs0
    /\ pc = "alt_search" =>
          /\ has_edge(Gs0, mainp[fa_i], mainp[fa_i + 1])
          /\ Gs = remove_edge(Gs0, mainp[fa_i], mainp[fa_i + 1])

\* find_alts has left its loop by the break on the third alternate
C6_Witness ==
    /\ pc = "eval_finish"
    /\ Len(alts) = ALT_MAX_ALTERNATIVES
    /\ fa_i < Len(mainp)
    /\ Gs = Gs0

\* C8: a pair whose evaluation or refinement fails is left out of the results,
\* and nothing else changes: the job has no outcome before the export, every pair
\* has been evaluated when the evaluation loop is left, exactly the pairs without
\* a path have failed, and every candidate of a batch has had its turn when the
\* selection starts.
C8_FailureIsolated ==
    /\ pc # "done" => result = "none"
    /\ cnt <= Len(candidate_pairs)
    /\ pc \notin EvalPcs => cnt = Len(candidate_pairs)
    /\ \A cand \in KeptCands : cand.snapped_pair \notin eval_failed
    /\ \A k \in 1..cnt :
          candidate_pairs[k] \in eval_failed
              <=> astar_path(Gs0, candidate_pairs[k][1], candidate_pairs[k][2]) = {}
    /\ \A c \in refine_raised :
          /\ c \notin Range(refined_pool)
          /\ c \notin Range(final_list)
          /\ main_pixel[c] = <<>>
    /\ pc = "select" => batch_pos = Len(batch_raw) + 1

\* the job ends in success with a selected route, after the evaluation of its
\* first pair found no path and the refinement of its best candidate raised
C8_Witness ==
    /\ pc = "done"
    /\ result = "success"
    /\ candidate_pairs # <<>>
    /\ candidate_pairs[1] \in eval_failed
    /\ 1 \in refine_raised
    /\ final_list # <<>>

-----------------------------------------------------------------------------
(* Claims about the graph stage *)

GraphBuilt == pc \notin {"skeleton", "simplify"}

FNone == <<-1, -1>>

\* the least weight of a path from u to v, the weights added up from u as
\* Dijkstra does; FNone when there is no path
shortest_path_length(G, u, v) ==
    LET lens == {chain_dist(G, p, Len(p) - 1) : p \in SimplePaths(G, <<u>>, v)}
    IN  IF lens = {} THEN FNone
        ELSE CHOOSE d \in lens : \A e \in lens : ~FLess(e, d)

\* C7 as claimed: between any two junctions of the full graph, the shortest
\* distance in the simplified graph is the same float as in the full graph.
C7_JunctionDistancesEqual ==
    GraphBuilt =>
        \A u, v \in junctions(fullG) :
            shortest_path_length(Gs0, u, v) = shortest_path_length(fullG, u, v)

\* C7, amended: between any two junctions of the full graph there is a path in
\* the simplified graph exactly when there is one in the full graph, and the two
\* shortest distances differ by no more than the rounding of the float sums
\* (here: 4096 units of 2^-52).
C7_JunctionDistancesEqualWithinRounding ==
    GraphBuilt =>
        \A u, v \in junctions(fullG) :
            LET ds == shortest_path_length(Gs0, u, v)
                df == shortest_path_length(fullG, u, v)
            IN  /\ ds = FNone <=> df = FNone
                /\ FWithin(ds, df, 4096)

\* two junctions joined by two chains of different length have been contracted:
\* the edge between them has the weight of the shorter chain
C7_Witness ==
    /\ pc = "snap"
    /\ binary_crop = EyeRaster
    /\ has_edge(Gs0, <<2, 1>>, <<2, 5>>)
    /\ Gs0.w[{<<2, 1>>, <<2, 5>>}] = shortest_path_length(fullG, <<2, 1>>, <<2, 5>>)

\* C9 as claimed: with a raster without navigable pixels the job is aborted when
\* the graph is built: no point is snapped and the job does not succeed.
C9_EmptyRasterAborts ==
    binary_crop = {} =>
        /\ pc \in {"skeleton", "simplify", "done"}
        /\ snapped_pts = <<>>
        /\ result # "success"

\* C9, amended: with a raster without navigable pixels the simplified graph is
\* the single node (0, 0) without edges and the job goes on: every sampled point
\* is snapped to (0, 0), there is at most one cluster representative, no pair is
\* generated or evaluated, and no route is selected.
C9_EmptyRasterGivesPlaceholderNode ==
    (binary_crop = {} /\ GraphBuilt) =>
        /\ Gs0 = [nodes |-> {<<0, 0>>}, w |-> <<>>]
        /\ Gs = Gs0
        /\ \A k \in 1..Len(snapped_pts) : snapped_pts[k] = <<0, 0>>
        /\ pc \notin {"snap"} => Len(snapped_pts) = Len(roi_csv_points)
        /\ Len(cluster_reps) <= 1
        /\ candidate_pairs = <<>>
        /\ cnt = 0
        /\ pair_scores = <<>>
        /\ final_list = <<>>
        /\ result = "failed" => pc = "done"

\* the job of a raster without navigable pixels has ended in success, its
\* sampled points snapped to the node (0, 0)
C9_Witness ==
    /\ binary_crop = {}
    /\ pc = "done"
    /\ result = "success"
    /\ Len(snapped_pts) = 2
    /\ cluster_reps = << <<0, 0>> >>

\* C11: snapping a node of the simplified graph gives that node and no other,
\* so snapping a snapped point gives the same point again.
C11_SnapIdempotent ==
    GraphBuilt =>
        /\ \A n \in Gs.nodes : snap_point(n, Gs) = {n}
        /\ \A k \in 1..Len(snapped_pts) :
              /\ snapped_pts[k] \in snap_point(roi_csv_points[k], Gs)
              /\ snap_point(snapped_pts[k], Gs) = {snapped_pts[k]}

\* a sampled point that is no node has been snapped to a node of a graph with
\* several nodes
C11_Witness ==
    /\ pc = "pairs"
    /\ Cardinality(Gs.nodes) > 1
    /\ \E k \in 1..Len(snapped_pts) : snapped_pts[k] # roi_csv_points[k]

-----------------------------------------------------------------------------
(* Claims about pair generation *)

InRange(p, q) ==
    /\ Dist2(p, q) >= CANDIDATE_MIN_DIST * CANDIDATE_MIN_DIST
    /\ Dist2(p, q) <= CANDIDATE_MAX_DIST * CANDIDATE_MAX_DIST

\* the unordered pairs of representatives whose distance is in the range
PairsInRange ==
    {pq \in {{cluster_reps[i], cluster_reps[j]} : i, j \in 1..Len(cluster_reps)} :
        \E p, q \in pq : p # q /\ InRange(p, q)}

\* C12: the generated list holds an unordered pair of distinct representatives
\* at most once and only if its distance is within
\* [CANDIDATE_MIN_DIST, CANDIDATE_MAX_DIST]; it is never longer than the
\* ceiling; it holds every pair in the range when these are no more than the
\* ceiling, and as many pairs as the ceiling otherwise.
C12_PairsInRangeOnceUpToCeiling ==
    pc = "eval" =>
        /\ \A k \in 1..Len(candidate_pairs) :
              /\ candidate_pairs[k][1] # candidate_pairs[k][2]
              /\ {candidate_pairs[k][1], candidate_pairs[k][2]} \in PairsInRange
        /\ \A k, l \in 1..Len(candidate_pairs) :
              k < l => {candidate_pairs[k][1], candidate_pairs[k][2]}
                          # {candidate_pairs[l][1], candidate_pairs[l][2]}
        /\ Len(candidate_pairs) <= MAX_CANDIDATE_PAIRS_TO_CALCULATE
        /\ Len(candidate_pairs)
              = Min2(Cardinality(PairsInRange), MAX_CANDIDATE_PAIRS_TO_CALCULATE)

\* three pairs in the range, one of them exactly CANDIDATE_MAX_DIST long and one
\* exactly CANDIDATE_MIN_DIST, were cut to a ceiling of two
C12_Witness ==
    /\ pc = "eval"
    /\ MAX_CANDIDATE_PAIRS_TO_CALCULATE = 2
    /\ Cardinality(PairsInRange) = 3
    /\ {<<0, 0>>, <<900, 1200>>} \in PairsInRange
    /\ {<<0, 0>>, <<0, 300>>} \in PairsInRange
    /\ Len(candidate_pairs) = 2


(***************************************************************************)
(* C13: generate_random_points terminates; it returns at most `count`      *)
(* points, every one of them inside the polygon; it takes no further batch *)
(* once `count` points are collected or the attempt counter has reached    *)
(* count * 100, and then returns the (possibly fewer) points it has.       *)
(***************************************************************************)
SampleReturned == pc = "skeleton"

SampleSafe ==
    /\ Len(points) <= NUM_RANDOM_POINTS
    /\ \A k \in 1..Len(points) : contains_point(roi_path_full, points[k])
    /\ attempts <= max_attempts + BATCH_OVERSAMPLE * NUM_RANDOM_POINTS
    /\ SampleReturned =>
         /\ generated_points = points
         /\ Len(generated_points) = NUM_RANDOM_POINTS \/ attempts >= max_attempts

C13_SamplingTerminatesWithinBudget ==
    /\ []SampleSafe
    /\ <>SampleReturned
    /\ [][SampleBatch => (Len(points) < NUM_RANDOM_POINTS /\ attempts < max_attempts)]_vars

\* the budget ran out with one point still missing
C13_Witness ==
    /\ SampleReturned
    /\ NUM_RANDOM_POINTS = MaxCount
    /\ Len(generated_points) = NUM_RANDOM_POINTS - 1
    /\ attempts >= max_attempts

(***************************************************************************)
(* C14: the batched loop takes the candidates in the order of the sorted   *)
(* list (hardness never rising), one index after the other and none twice; *)
(* every batch is followed by a selection run that starts from an empty    *)
(* list over the whole pool collected so far; no candidate is refined once *)
(* the selected list holds the target number; and no selected list is ever *)
(* longer than the target.                                                 *)
(***************************************************************************)
\* how many candidates of the sorted list refinement has consumed
Frontier ==
    IF pc = "refine"
    THEN current_idx - BATCH_SIZE + batch_pos - 1
    ELSE Min2(current_idx, Len(sorted_graph_candidates))

RefineStep == pc = "refine" /\ batch_pos' = batch_pos + 1

C14_BatchedLoopDiscipline ==
    /\ [](/\ Len(temp_selected) <= NUM_OUTPUT_ROUTES
          /\ Len(final_list) <= NUM_OUTPUT_ROUTES
          /\ Len(final_list) >= NUM_OUTPUT_ROUTES => pc # "refine")
    /\ [][/\ RefineStep =>
               /\ batch_raw[batch_pos] = Frontier + 1
               /\ Frontier' = Frontier + 1
               /\ Frontier >= 1 =>
                    ~FracLess(sorted_graph_candidates[Frontier].hardness_score,
                              sorted_graph_candidates[Frontier + 1].hardness_score)
               /\ Len(final_list) < NUM_OUTPUT_ROUTES
          /\ ~RefineStep => Frontier' = Frontier
          /\ (pc = "refine" /\ pc' # "refine") =>
               /\ pc' = "select"
               /\ batch_pos > Len(batch_raw)
               /\ temp_selected' = <<>>
               /\ Range(pool_sorted') = Range(refined_pool)
               /\ Len(pool_sorted') = Len(refined_pool)]_vars

\* the selection run after the second batch, over a pool that holds a
\* candidate of each batch
C14_Witness ==
    /\ pc = "select"
    /\ BATCH_SIZE >= 1
    /\ current_idx = 2 * BATCH_SIZE
    /\ \E c \in Range(pool_sorted) : c <= BATCH_SIZE
    /\ \E c \in Range(pool_sorted) : c > BATCH_SIZE
    /\ final_list # <<>>

(***************************************************************************)
(* C15: a selection run is entered only from the end of the batch's        *)
(* refinement loop, when every candidate of the batch has been through it; *)
(* while the run lasts no candidate is refined and the pool does not       *)
(* change.                                                                 *)
(***************************************************************************)
C15_SelectionAfterWholeBatch ==
    /\ [](pc = "select" => batch_pos = Len(batch_raw) + 1)
    /\ [][/\ (pc # "select" /\ pc' = "select") =>
               /\ pc = "refine"
               /\ batch_pos = Len(batch_raw) + 1
               /\ \A k \in 1..Len(batch_raw) : batch_raw[k] <= Frontier
          /\ pc = "select" =>
               UNCHANGED <<batch_pos, batch_raw, refined_pool, overlap,
                           main_pixel, alt_pixel, refine_raised>>]_vars

\* a run over a full batch whose last candidate entered the pool
C15_Witness ==
    /\ pc = "select"
    /\ Len(batch_raw) = MaxBatch
    /\ batch_raw[MaxBatch] \in Range(refined_pool)
    /\ temp_selected # <<>>

(***************************************************************************)
(* C16: each pass of a selection run records its own 1-based number for    *)
(* the candidates it accepts, so the accepted list of a run carries, in    *)
(* order, the passes 1..Len(PASSES) in which its members were accepted in  *)
(* that run; the final list is the list of the last run, and keeps them.   *)
(***************************************************************************)
PassesOf(list) == [j \in 1..Len(list) |-> selection_pass[list[j]]]

C16_SelectionPassIsAcceptingPass ==
    /\ [](/\ pc = "select" =>
               \A j \in 1..Len(temp_selected) :
                   PassesOf(temp_selected)[j] \in 1..Min2(pass_idx - 1, Len(PASSES))
          /\ pc \in {"loop", "export", "done"} =>
               /\ final_list = temp_selected
               /\ \A j \in 1..Len(final_list) : PassesOf(final_list)[j] \in 1..Len(PASSES)
               /\ \A j \in 1..(Len(final_list) - 1) :
                      PassesOf(final_list)[j] <= PassesOf(final_list)[j + 1])
    /\ [][(pc = "select" /\ pass_idx' = pass_idx + 1) =>
             \A j \in (Len(temp_selected) + 1)..Len(temp_selected') :
                 selection_pass'[temp_selected'[j]] = pass_idx]_vars

\* the job ends on the selection run of a later batch, whose second member
\* was accepted in a pass after the first
C16_Witness ==
    /\ pc = "done"
    /\ BATCH_SIZE >= 1
    /\ current_idx > BATCH_SIZE
    /\ Len(final_list) = 2
    /\ PassesOf(final_list)[1] = 1
    /\ PassesOf(final_list)[2] > 1

\* an overlap fraction no greater than the configured MAX_OVERLAP_PERCENT
WithinThreshold(ov) == ov[1] * 100 <= MAX_OVERLAP_PERCENT * ov[2]

\* the pixel alternates a pooled candidate carries, in the order refinement
\* accepted them: the dict has the one key alt_pixel
PixelAlts(c) == IF alt_pixel[c] = <<>> THEN <<>> ELSE <<alt_pixel[c]>>

\* C17 as claimed: a pooled candidate has a pixel alternate for each of its
\* alternates, each within the threshold against the main pixel path and
\* against the pixel alternates accepted before it.
C17_EveryAlternatePassed ==
    \A c \in Range(refined_pool) :
        LET cand == sorted_graph_candidates[c]
            pix == PixelAlts(c)
        IN  /\ Len(pix) = Len(cand.alt_routes_graph)
            /\ \A k \in 1..Len(pix) :
                  /\ WithinThreshold(get_pixel_overlap(main_pixel[c], pix[k]))
                  /\ \A j \in 1..(k - 1) :
                        WithinThreshold(get_pixel_overlap(pix[j], pix[k]))

(***************************************************************************)
(* C17, amended: a candidate is in the refined pool only if it has a graph *)
(* alternate and the overlap of its one pixel alternate with its main      *)
(* pixel path, which is the overlap the dict records, is within            *)
(* MAX_OVERLAP_PERCENT; a candidate outside the pool has no pixel keys,    *)
(* and a refinement step adds the whole candidate or nothing.              *)
(***************************************************************************)
C17_PooledAlternateWithinOverlap ==
    /\ [](\A c \in 1..Len(sorted_graph_candidates) :
            IF c \in Range(refined_pool)
            THEN /\ Len(sorted_graph_candidates[c].alt_routes_graph) >= 1
                 /\ Len(PixelAlts(c)) = 1
                 /\ overlap[c] = get_pixel_overlap(main_pixel[c], alt_pixel[c])
                 /\ WithinThreshold(overlap[c])
                 /\ c \notin refine_raised
            ELSE main_pixel[c] = <<>> /\ alt_pixel[c] = <<>>)
    /\ [][RefineStep =>
            \/ UNCHANGED <<refined_pool, main_pixel, alt_pixel, overlap>>
            \/ refined_pool' = Append(refined_pool, batch_raw[batch_pos])]_vars

\* refinement has turned one candidate down for its overlap, and has pooled
\* another whose pixel alternate shares pixels with its main path
C17_Witness ==
    /\ \E c \in 1..Len(sorted_graph_candidates) :
          /\ c <= Frontier
          /\ c \notin Range(refined_pool) \cup refine_raised
          /\ Len(sorted_graph_candidates[c].alt_routes_graph) >= 1
    /\ \E d \in Range(refined_pool) :
          /\ overlap[d][1] > 0
          /\ Len(sorted_graph_candidates[d].alt_routes_graph) >= 2

\* the edge find_alts is searching around, and whether a path runs over it
SearchedEdge == {mainp[fa_i], mainp[fa_i + 1]}

UsesEdge(path, e) == \E k \in 1..(Len(path) - 1) : {path[k], path[k + 1]} = e

\* C18 as claimed: the search for an alternate sees the edge it diversifies
\* around still in the graph, and so gets a path back for every pair.
C18_PenalisedEdgeStaysUsable ==
    pc = "alt_search" =>
        /\ has_edge(Gs, mainp[fa_i], mainp[fa_i + 1])
        /\ astar_path(Gs, mainp[1], mainp[Len(mainp)]) # {}

(***************************************************************************)
(* C18, amended: the search for an alternate runs on the graph without one *)
(* edge of the main path, every other edge at the weight it was built      *)
(* with; an alternate it yields does not run over that edge, and a pair    *)
(* whose every route runs over it gets no alternate from that search.      *)
(***************************************************************************)
C18_SearchedEdgeIsRemoved ==
    /\ [](pc = "alt_search" =>
            /\ UsesEdge(mainp, SearchedEdge)
            /\ SearchedEdge \notin DOMAIN Gs.w
            /\ \A e \in DOMAIN Gs.w : Gs.w[e] = Gs0.w[e])
    /\ [][pc = "alt_search" =>
            /\ alts' # alts =>
                 /\ Len(alts') = Len(alts) + 1
                 /\ ~UsesEdge(alts'[Len(alts')], SearchedEdge)
            /\ (\A b \in SimplePaths(Gs0, <<mainp[1]>>, mainp[Len(mainp)]) :
                    UsesEdge(b, SearchedEdge)) => alts' = alts]_vars

\* a search for a pair whose only route runs over the edge taken out
C18_Witness ==
    /\ pc = "alt_search"
    /\ SimplePaths(Gs0, <<mainp[1]>>, mainp[Len(mainp)]) # {}
    /\ SimplePaths(Gs, <<mainp[1]>>, mainp[Len(mainp)]) = {}

\* the search of find_alts that starts from the edge before mainp[j + 1] finds
\* no path
SearchFails(j) ==
    astar_path(remove_edge(Gs0, mainp[j], mainp[j + 1]), mainp[1], mainp[Len(mainp)]) = {}

\* C19 as claimed: no search runs for a pair after one of its searches has
\* found no path.
C19_NoSearchAfterNoPath ==
    pc = "alt_search" =>
        \A j \in 1..(fa_i - 1) : j % ALT_EDGE_STEP = 1 => ~SearchFails(j)

(***************************************************************************)
(* C19, amended: a search that finds no path yields no alternate, the edge *)
(* it had taken out is put back, and find_alts goes on with the next fifth *)
(* edge of the main path, which is in the graph for it to search around.   *)
(***************************************************************************)
C19_SearchGoesOnAfterNoPath ==
    /\ [](pc = "find_alts" /\ fa_i < Len(mainp) =>
             has_edge(Gs, mainp[fa_i], mainp[fa_i + 1]))
    /\ [][(pc = "alt_search" /\ astar_path(Gs, mainp[1], mainp[Len(mainp)]) = {}) =>
             /\ pc' = "find_alts"
             /\ fa_i' = fa_i + ALT_EDGE_STEP
             /\ alts' = alts
             /\ Gs' = Gs0]_vars

\* find_alts has returned an alternate it found after the search around the
\* first edge had found no path
C19_Witness ==
    /\ pc = "eval_finish"
    /\ Len(mainp) > ALT_EDGE_STEP + 1
    /\ SearchFails(1)
    /\ alts # <<>>

(***************************************************************************)
(* C20: the walk from a junction along any of its edges ends, on a         *)
(* junction, after passing only nodes of degree 2, each once: it never     *)
(* runs out of onward neighbours.  So the contracted graph has the         *)
(* junctions as its nodes (or the placeholder node when there are none),   *)
(* and each of its edges joins two junctions.                              *)
(***************************************************************************)
\* the nodes of the full graph that are not junctions
ChainNodes == {n \in fullG.nodes : degree(fullG, n) = 2}

WalkEndsAtJunction(n, neigh) ==
    LET chain == WalkChain(fullG, <<n, neigh>>)
    IN  /\ degree(fullG, chain[Len(chain)]) # 2
        /\ \A k \in 2..(Len(chain) - 1) : chain[k] \in ChainNodes
        /\ \A j, k \in 2..(Len(chain) - 1) : j # k => chain[j] # chain[k]
        /\ \A k \in 1..(Len(chain) - 1) : has_edge(fullG, chain[k], chain[k + 1])

C20_ContractedEdgesJoinJunctions ==
    pc # "skeleton" =>
        /\ \A n \in fullG.nodes \ ChainNodes :
              \A neigh \in neighbors(fullG, n) : WalkEndsAtJunction(n, neigh)
        /\ Gs0.nodes \cap ChainNodes = {}
        /\ IF Gs0.w = <<>> THEN TRUE
           ELSE \A e \in DOMAIN Gs0.w : e \cap ChainNodes = {} /\ e \subseteq fullG.nodes
        /\ pc = "simplify" =>
              /\ Gs.nodes = fullG.nodes \ ChainNodes
              /\ IF Gs.w = <<>> THEN TRUE
                 ELSE \A e \in DOMAIN Gs.w : e \cap ChainNodes = {} /\ e \subseteq fullG.nodes

\* simplify_graph has returned a graph with an edge that stands for a chain
\* through nodes of degree 2
C20_Witness ==
    /\ GraphBuilt
    /\ ChainNodes # {}
    /\ Gs0.w # <<>>
    /\ \E e \in DOMAIN Gs0.w : e \notin DOMAIN fullG.w

(***************************************************************************)
(* C21: smooth_path returns as many points as it was given; the first and  *)
(* the last point, and the window_size // 2 points nearest each end, are   *)
(* the input's; a path shorter than the window comes back unchanged.       *)
(***************************************************************************)
C21_SmoothKeepsLengthAndEnds ==
    pc = "smoothed" =>
        LET n == Len(sp_path)
            h == sp_window \div 2
        IN  /\ Len(smoothed_path) = n
            /\ n > 0 => smoothed_path[1] = sp_path[1] /\ smoothed_path[n] = sp_path[n]
            /\ \A i \in 1..n :
                  (i <= h \/ i > n - h) => smoothed_path[i] = sp_path[i]
            /\ n < sp_window => smoothed_path = sp_path

\* a path of at least the window's length has come back with a point between
\* the kept ends moved
C21_Witness ==
    /\ pc = "smoothed"
    /\ sp_window = MaxWindow
    /\ Len(sp_path) > sp_window
    /\ \E i \in 1..Len(sp_path) : smoothed_path[i] # sp_path[i]

(***************************************************************************)
(* C22: find_alts is called on the graph as built and leaves it so on its  *)
(* return, whether the loop ran out or broke off on the third alternate;   *)
(* after a search that found no path the graph is as built again; during   *)
(* the call at most one edge is missing, no edge is added and no weight    *)
(* differs; and at most ALT_MAX_ALTERNATIVES alternates are returned.      *)
(***************************************************************************)
MissingEdges == (DOMAIN Gs0.w) \ (DOMAIN Gs.w)

C22_FindAltsLeavesGraphAsFound ==
    /\ [](/\ pc = "eval_finish" => Gs = Gs0 /\ Len(alts) <= ALT_MAX_ALTERNATIVES
          /\ pc \in {"find_alts", "alt_search"} =>
                /\ Cardinality(MissingEdges) <= 1
                /\ Gs.nodes = Gs0.nodes
                /\ (DOMAIN Gs.w) \subseteq (DOMAIN Gs0.w)
                /\ \A e \in DOMAIN Gs.w : Gs.w[e] = Gs0.w[e]
                /\ Len(alts) < ALT_MAX_ALTERNATIVES)
    /\ [][/\ (pc = "eval" /\ pc' = "find_alts") => Gs = Gs0
          /\ (pc = "alt_search" /\ alts' = alts) => Gs' = Gs0
          /\ (pc = "alt_search" /\ pc' = "eval_finish") =>
                Gs' = Gs0 /\ Len(alts') = ALT_MAX_ALTERNATIVES]_vars

\* find_alts has returned at the end of its loop, after two searches that
\* each gave an alternate
C22_Witness ==
    /\ pc = "eval_finish"
    /\ fa_i >= Len(mainp)
    /\ fa_i > ALT_EDGE_STEP
    /\ Len(alts) = 2
    /\ Gs = Gs0

\* the selection run hands over its list: "final_list = temp_selected"
RunEnds == pc = "select" /\ pc' # "select"

\* C23 as claimed: the list of a run holds every candidate of the list of the
\* run before it, and is at least as long.
C23_SelectionMonotone ==
    [][RunEnds =>
          /\ Range(final_list) \subseteq Range(final_list')
          /\ Len(final_list') >= Len(final_list)]_vars

(***************************************************************************)
(* C23, amended: every run starts from an empty list over a pool that      *)
(* continues the pool of the run before it, so the candidates the first    *)
(* pass of one run accepted are accepted, in the same places, by the first *)
(* pass of the next run (and kept to its end); the candidates of later     *)
(* passes are not carried over.                                            *)
(***************************************************************************)
C23_FirstPassCarriesOver ==
    [][/\ (pc = "refine" /\ pc' = "select") =>
             temp_selected' = <<>> /\ IsPrefix(pool_sorted, pool_sorted')
       /\ (pc = "select" /\ pass_idx = 1 /\ pass_idx' = 2) =>
             \A j \in 1..Len(final_list) :
                 selection_pass[final_list[j]] = 1 =>
                     /\ j <= Len(temp_selected')
                     /\ temp_selected'[j] = final_list[j]
                     /\ selection_pass'[final_list[j]] = 1
       /\ RunEnds =>
             \A j \in 1..Len(temp_selected) :
                 selection_pass[temp_selected[j]] = 1 => final_list'[j] = temp_selected[j]]_vars

\* a run is about to hand over a list that is shorter than the list of the
\* run before it: it kept the first-pass candidate and lost two others
C23_Witness ==
    /\ pc = "select"
    /\ pass_idx > Len(PASSES)
    /\ final_list # <<>>
    /\ temp_selected # <<>>
    /\ final_list[1] = temp_selected[1]
    /\ Len(temp_selected) < Len(final_list)
    /\ Cardinality(Range(final_list) \ Range(temp_selected)) = 2

\* an iteration of the while loop is entered
IterationEntered ==
    /\ pc = "loop"
    /\ Len(final_list) < NUM_OUTPUT_ROUTES
    /\ current_idx < Len(sorted_graph_candidates)
    /\ pc' # "loop"

\* C24 as claimed: whatever batch_size and num_output_routes are, every
\* iteration of the while loop moves current_idx forward, so that the loop ends
\* when the list is used up or the target is reached.
C24_EveryIterationAdvances ==
    [][IterationEntered => current_idx' > current_idx]_vars

(***************************************************************************)
(* C25: a job that has sent its first "processing" post and has returned   *)
(* has sent exactly one closing post, the last post of all: "complete"     *)
(* when it returns success, "failed" when it returns failure; until it     *)
(* returns it has sent no closing post.                                    *)
(***************************************************************************)
ClosingPosts == {k \in 1..Len(webhook_log) : webhook_log[k] \in {"complete", "failed"}}

C25_OneClosingPost ==
    /\ pc \notin {"start", "done"} =>
          /\ ClosingPosts = {}
          /\ result = "none"
          /\ webhook_log = <<"processing">>
    /\ pc = "done" =>
          /\ webhook_log[1] = "processing"
          /\ ClosingPosts = {Len(webhook_log)}
          /\ result \in {"success", "failed"}
          /\ result = "success" <=> webhook_log[Len(webhook_log)] = "complete"
          /\ result = "failed" <=> webhook_log[Len(webhook_log)] = "failed"

\* a job has gone through every stage on a raster with a graph and has
\* returned success
C25_Witness ==
    /\ pc = "done"
    /\ result = "success"
    /\ Gs0.w # <<>>
    /\ generated_points # <<>>
    /\ webhook_log = <<"processing", "complete">>

====
